---- MODULE Spec2Model ----
(***************************************************************************)
(* A model of the controller monitor (monitor package: lease loop, watcher *)
(* loop, delta reducer) and of the jimm Watcher (supervisor poll loop,     *)
(* watchController, handleDelta), and of the gateway (jujuapi) with the    *)
(* orchestrator operations behind it.                                      *)
(*                                                                         *)
(* The module holds several specifications, one per subsystem.  Each has   *)
(* its own group of variables; a specification leaves the other groups at  *)
(* their initial values.                                                   *)
(*   SpecLease            several instances competing for monitor leases   *)
(*   SpecReducer          the delta reducer of one watch session           *)
(*   SpecFlush            SpecReducer in shorter sessions                  *)
(*   SpecMonitor          one controller monitor: tomb, lease loop,        *)
(*                        watcher loop and their goroutines                *)
(*   SpecMonitorFair      SpecMonitor with fair scheduling of the watcher  *)
(*   SpecWatcherCred      the watcher loop beside updates of a credential  *)
(*   SpecWatcherCredFair  SpecWatcherCred with fair scheduling             *)
(*   SpecWatch            Watcher.Watch, its runner and its watchers       *)
(*   SpecWatchController  one watchController: model check, then deltas    *)
(*   SpecSummaryAccess    ListModelSummaries: the access level it reports  *)
(*   SpecDying            a destroyed model, its controller and the watcher*)
(*   SpecDyingFair        SpecDying with the watcher and controller fair   *)
(*   SpecNextLoop         watch's loop and its goroutines calling Next     *)
(*   SpecNextLoopFair     SpecNextLoop with fair goroutines                *)
(*   SpecSummaries        one watchAllModelSummaries: what it publishes    *)
(*   SpecGateway          the ModelManager facade over the orchestrator    *)
(*   SpecConn             one gateway connection: heartbeat and Login      *)
(*   SpecConnFair         SpecConn with a fair select in handle            *)
(*   SpecSelect           controller selection                             *)
(*   SpecCreate           model creation and its credential choice         *)
(*   SpecPool             the pool of store sessions                       *)
(*   SpecBatch            watch around one batch and its runner            *)
(***************************************************************************)
EXTENDS Integers, Sequences, FiniteSets, TLC

(***************************************************************************)
(* State.                                                                  *)
(***************************************************************************)
\* SpecLease
VARIABLES
    now,        \* Clock.Now()
    ctls,       \* controller name -> controller document (the lease)
    mons,       \* instance, controller -> that instance's monitor
    snaps,      \* instance, controller -> the document the supervisor read
    lastAcq     \* the last acquireLease call: arguments, document before and after

leaseVars == <<now, ctls, mons, snaps, lastAcq>>

\* SpecReducer
VARIABLES
    wstate,     \* the watcherState of the running watch session
    rpc,        \* where the watch loop is: "next", "deltas", "stopped"
    nDeltas,    \* deltas added so far in this session
    live,       \* entity ids whose last delta in this session was not a removal
    flushed     \* the store updates of the last completed batch

redVars == <<wstate, rpc, nDeltas, live, flushed>>

\* SpecMonitor
VARIABLES
    mclock,         \* Clock.Now()
    mctl,           \* the controller document: lease and unavailableSince
    tomb,           \* m.tomb: whether it is dying, and the reason
    killed,         \* Kill has been called
    lpc,            \* leaseUpdater: "wait" (in its select) or "done"
    mLeaseExpiry,   \* m.leaseExpiry
    lret,           \* what leaseUpdater returned
    lraw,           \* what AcquireMonitorLease answered to the last renewal
    wpc,            \* watcher: where the loop is
    wret,           \* what watcher returned
    dialStartTime,  \* watcher's dialStartTime
    sleepUntil,     \* when the retry timer fires
    conn,           \* the connection the watcher loop holds (0: none)
    dg,             \* dialAPI's goroutine: "none", "open", "reply", "done"
    dgConn,         \* the connection OpenAPI returned to it (0: none)
    dgErr,          \* the error OpenAPI returned to it
    conns,          \* connection handle -> "unused", "open", "closed", "evicted"
    nextG,          \* the goroutine calling apiw.Next: "none", "calling", "sent"
    nextErr,        \* whether the reply it sent holds an error
    wrote           \* flips at every store write of the monitor

monVars ==
    <<mclock, mctl, tomb, killed, lpc, mLeaseExpiry, lret, lraw, wpc, wret,
      dialStartTime, sleepUntil, conn, dg, dgConn, dgErr, conns, nextG,
      nextErr, wrote>>

\* SpecWatch
VARIABLES
    spc,            \* Watch: "poll", "select", "return" (running its defers), "returned"
    sret,           \* what Watch returns
    defers,         \* the deferred calls Watch has still to run
    parentDone,     \* the context given to Watch is cancelled
    ctxDone,        \* the context Watch derived is cancelled
    sctls,          \* the controllers in the database
    visited,        \* the controllers ForEachController has passed to the callback
    runnerState,    \* the runner: the names running and its wait group
    slot,           \* the controller-watcher goroutines
    lastVisit,      \* per controller: what the last r.run for it did
    lastDial,       \* per controller: how the last dial of it ended
    lastPoll        \* what ForEachController returned to the last poll

watchVars ==
    <<spc, sret, defers, parentDone, ctxDone, sctls, visited, runnerState,
      slot, lastVisit, lastDial, lastPoll>>

\* SpecWatchController
VARIABLES
    dbModels,       \* the model rows of the controller in the database, by ID
    dbUnits,        \* flips at every write to the unit rows in the database
    snapModels,     \* the rows as ForEachControllerModel read them (during the check)
    modelIDs,       \* watchController's modelIDs: UUID -> ID, NotCached if absent
    cpc,            \* watchController: "start", "check", "modelinfo", "next", "deltas", "done"
    cur,            \* the row whose ModelInfo call is outstanding
    checked,        \* the rows checkControllerModels has been through
    answers,        \* per row: what the controller answered to ModelInfo (during the check)
    consumed,       \* a batch of deltas has been received
    cret,           \* what watchController returned
    lastH           \* the call of handleDelta made in the last step, if it was one

wcVars ==
    <<dbModels, dbUnits, snapModels, modelIDs, cpc, cur, checked, answers,
      consumed, cret, lastH>>

\* SpecSummaries
VARIABLES
    sumModels,      \* the model rows of the controller in the database, by ID
    sumIDs,         \* watchAllModelSummaries's modelIDs: UUID -> ID
    sumpc,          \* watchAllModelSummaries: "start", "next", "loop", "done"
    hub,            \* what the last step published: <<topic, summary>> pairs
    lastSum,        \* the summary taken in the last step, whether its model had
                    \* a row, and whether the database answered
    sumAtNext       \* the UUIDs that had a row when the batch was received

sumVars == <<sumModels, sumIDs, sumpc, hub, lastSum, sumAtNext>>

\* The gateway's model operations (SpecGateway): the local model rows with
\* their ACL, the models the downstream controller has, and the last request.
VARIABLES
    jemModels,      \* UUID -> the local model row: exists, owner, read ACL
    ctlModels,      \* the UUIDs of the models the downstream controller has
    gwLast          \* the last request: its inputs, the rows before, its result
gwVars == <<jemModels, ctlModels, gwLast>>

\* A gateway connection (SpecConn): its handler, heartbeat timer and login.
VARIABLES
    wsKind,         \* what the URL names: "root", "controller-model", "model", "unknown"
    wsUsername,     \* jem.Auth.Username of the connection ("" before login)
    wsLogin,        \* the last Login call: its inputs, the state before, its result
    wsMinted,       \* the number of macaroons NewMacaroon has issued
    hbTimer,        \* the heartbeat timer: ticks until it fires, 0 when not armed
    timerC,         \* a value is waiting on the timer's channel
    sincePing,      \* ticks since the last Ping (or since the timer was made)
    missed,         \* websocketPingTimeout has once passed without a Ping
    rpcDead,        \* the RPC connection has died (conn.Dead())
    hpc,            \* wsHandler.handle: "idle", "select", "closed"
    closedBy        \* the select branch that ended handle
connVars == <<wsKind, wsUsername, wsLogin, wsMinted, hbTimer, timerC, sincePing, missed,
              rpcDead, hpc, closedBy>>

\* Controller selection and model creation (SpecSelect, SpecCreate).
VARIABLES
    selCtls,        \* the paths of the controllers in the store (SpecSelect)
    lastSel,        \* the last SelectController call: inputs and result
    crCreds,        \* the credentials in the store: <<user, name>> for the cloud
    crModels,       \* model path -> the model row CreateModel persisted
    crRemote,       \* the model paths created on the controller
    lastCreate      \* the last CreateModel call: inputs, state before, result
selVars == <<selCtls, lastSel, crCreds, crModels, crRemote, lastCreate>>

\* The credential that the monitored controller holds (SpecWatcherCred)
VARIABLES
    mcred           \* whether the controller is in the credential's
                    \* pending-update set, and what the controller holds

credVars == <<mcred>>

\* SpecPool
VARIABLES
    psSlots,        \* Pool.sessions: slot -> the session it holds (0: none yet)
    psIndex,        \* Pool.sessionIndex: the slot of the next acquisition
    psSessions,     \* session -> whether it is alive, and whether (and when)
                    \* an operation on it was seen to fail
    psHandles       \* the handles handed out, in order: slot, session and
                    \* the outcome of the last operation on the handle

poolVars == <<psSlots, psIndex, psSessions, psHandles>>

\* SpecBatch
VARIABLES
    bpc,            \* watch: "request", "select", "deltas", "dispatch", "wait", "done"
    bBatch,         \* the number of batches received
    bLen,           \* the number of deltas in the batch
    bApplied,       \* the deltas of the batch added so far (by position)
    bToDispatch,    \* updates of the flush not yet handed to the runner
    bStarted,       \* functions the runner has started
    bCompleted,     \* functions of the runner that have completed
    bFailed         \* whether one of them returned an error

batchVars == <<bpc, bBatch, bLen, bApplied, bToDispatch, bStarted, bCompleted, bFailed>>

\* SpecDying
VARIABLES
    dyModels,       \* the model rows of the controller in the database, by ID
    dyCtl,          \* the model on the controller: "none", a life, or "gone"
    dyQueue,        \* deltas the session's all-watcher has not yet delivered
    dyBatch,        \* the deltas of the batch not yet handled
    dyIDs,          \* watchController's modelIDs: UUID -> ID
    dypc            \* the watcher: "idle", "check", "next", "deltas"

dyVars == <<dyModels, dyCtl, dyQueue, dyBatch, dyIDs, dypc>>

\* SpecSummaryAccess
VARIABLES
    lsModel,        \* the model row: its owner and its three ACLs
    lsLast          \* the last ListModelSummaries call: caller, row and result

lsVars == <<lsModel, lsLast>>

\* SpecNextLoop
VARIABLES
    nxpc,           \* watch: "watch", "go", "select", "deltas", "done"
    nxCall,         \* the number of calls of watch so far (each has its replyc)
    nxIter,         \* the number of turns of watch's loop so far
    nxCalling,      \* the goroutines inside apiw.Next: their turn and call
    nxSending,      \* the goroutines at 'replyc <- reply{d, err}'
    nxReplyc,       \* the buffer of each call's replyc
    nxDying,        \* whether the tomb is dying
    nxStopped,      \* the calls of watch whose apiw has been stopped
    nxGot,          \* the last reply watch received, and the turn it was in
    nxInFlight      \* whether a goroutine was left when watch returned ErrDying

nxVars == <<nxpc, nxCall, nxIter, nxCalling, nxSending, nxReplyc, nxDying, nxStopped, nxGot, nxInFlight>>

vars == <<leaseVars, redVars, monVars, watchVars, wcVars, sumVars, gwVars, connVars, selVars, credVars, poolVars, batchVars, dyVars, lsVars, nxVars>>

\* What the steps of each specification leave alone.
LeaseFrame == UNCHANGED <<redVars, monVars, watchVars, wcVars, sumVars, gwVars, connVars, selVars, credVars, poolVars, batchVars, dyVars, lsVars, nxVars>>

ReducerFrame == UNCHANGED <<leaseVars, monVars, watchVars, wcVars, sumVars, gwVars, connVars, selVars, credVars, poolVars, batchVars, dyVars, lsVars, nxVars>>

MonitorFrame == UNCHANGED <<leaseVars, redVars, watchVars, wcVars, sumVars, gwVars, connVars, selVars, poolVars, batchVars, dyVars, lsVars, nxVars>>

WatchFrame == UNCHANGED <<leaseVars, redVars, monVars, wcVars, sumVars, gwVars, connVars, selVars, credVars, poolVars, batchVars, dyVars, lsVars, nxVars>>

WatchControllerFrame == UNCHANGED <<leaseVars, redVars, monVars, watchVars, sumVars, gwVars, connVars, selVars, credVars, poolVars, batchVars, dyVars, lsVars, nxVars>>

SummariesFrame == UNCHANGED <<leaseVars, redVars, monVars, watchVars, wcVars, gwVars, connVars, selVars, credVars, poolVars, batchVars, dyVars, lsVars, nxVars>>

GatewayFrame == UNCHANGED <<leaseVars, redVars, monVars, watchVars, wcVars, sumVars, connVars, selVars, credVars, poolVars, batchVars, dyVars, lsVars, nxVars>>

ConnFrame == UNCHANGED <<leaseVars, redVars, monVars, watchVars, wcVars, sumVars, gwVars, selVars, credVars, poolVars, batchVars, dyVars, lsVars, nxVars>>

SelectFrame == UNCHANGED <<leaseVars, redVars, monVars, watchVars, wcVars, sumVars, gwVars, connVars, credVars, poolVars, batchVars, dyVars, lsVars, nxVars>>

PoolFrame == UNCHANGED <<leaseVars, redVars, monVars, watchVars, wcVars, sumVars, gwVars, connVars, selVars, credVars, batchVars, dyVars, lsVars, nxVars>>

BatchFrame == UNCHANGED <<leaseVars, redVars, monVars, watchVars, wcVars, sumVars, gwVars, connVars, selVars, credVars, poolVars, dyVars, lsVars, nxVars>>

DyingFrame == UNCHANGED <<leaseVars, redVars, monVars, watchVars, wcVars, sumVars, gwVars, connVars, selVars, credVars, poolVars, batchVars, lsVars, nxVars>>

SummaryAccessFrame == UNCHANGED <<leaseVars, redVars, monVars, watchVars, wcVars, sumVars, gwVars, connVars, selVars, credVars, poolVars, batchVars, dyVars, nxVars>>

NextLoopFrame == UNCHANGED <<leaseVars, redVars, monVars, watchVars, wcVars, sumVars, gwVars, connVars, selVars, credVars, poolVars, batchVars, dyVars, lsVars>>

(***************************************************************************)
(* Errors are modelled by their cause (errgo.Cause).                       *)
(***************************************************************************)
Nil == "nil"

ErrNotFound == "ErrNotFound"

ErrLeaseUnavailable == "ErrLeaseUnavailable"

errControllerRemoved == "errControllerRemoved"

ErrDying == "ErrDying"

ErrAPIConnection == "ErrAPIConnection"

ErrOther == "other"

\* isMonitoringStoppedError(err): the cause is errControllerRemoved or
\* jem.ErrLeaseUnavailable.
isMonitoringStoppedError(err) ==
    err = errControllerRemoved \/ err = ErrLeaseUnavailable

\* errgo.Mask(err, pass): the cause of err is kept only when pass allows it
\* (keep is pass applied to the cause); otherwise the returned error is its
\* own cause.
Mask(err, keep) ==
    IF err = Nil THEN Nil ELSE IF keep THEN err ELSE ErrOther

(***************************************************************************)
(* Time.  The clock is a counter of ticks; 0 is the zero time.Time.        *)
(***************************************************************************)
ZeroTime == 0

MaxTime == 7

\* leaseExpiryDuration, scaled to ticks.
leaseExpiryDuration == 4

NoOwner == ""

Instances == {"j1", "j2", "j3"}

Controllers == {"c1"}

Times == 0 .. (MaxTime + leaseExpiryDuration)

(***************************************************************************)
(* Lease manager.                                                          *)
(***************************************************************************)
\* A controller document, as far as the lease is concerned.
NoCtl == [exists |-> FALSE, expiry |-> ZeroTime, owner |-> NoOwner]

FreeCtl == [exists |-> TRUE, expiry |-> ZeroTime, owner |-> NoOwner]

\* The stored lease is expired relative to server time t.
LeaseExpired(ctl, t) == ctl.expiry <= t

\* JEM.AcquireMonitorLease: one compare-and-swap on the controller document.
\* The result holds the error, the actual expiry and the document afterwards.
AcquireMonitorLease(ctl, oldExpiry, oldOwner, newExpiry, newOwner, t) ==
    IF ~ctl.exists
    THEN [err |-> ErrNotFound, t |-> ZeroTime, ctl |-> ctl]
    ELSE IF (ctl.expiry = oldExpiry /\ ctl.owner = oldOwner) \/ LeaseExpired(ctl, t)
    THEN LET e == IF newOwner = NoOwner THEN ZeroTime ELSE newExpiry
         IN  [err |-> Nil, t |-> e,
              ctl |-> [ctl EXCEPT !.expiry = e, !.owner = newOwner]]
    ELSE [err |-> ErrLeaseUnavailable, t |-> ZeroTime, ctl |-> ctl]

\* acquireLease with the mapping of ErrNotFound left out.
acquireLease_NoMap(ctl, oldExpiry, oldOwner, newOwner, t) ==
    LET r == AcquireMonitorLease(ctl, oldExpiry, oldOwner,
                                 t + leaseExpiryDuration, newOwner, t)
    IN  IF r.err = Nil
        THEN r
        ELSE [r EXCEPT !.err = Mask(r.err, isMonitoringStoppedError(r.err)),
                       !.t = ZeroTime]

\* acquireLease: always asks for a lease leaseExpiryDuration from now and
\* turns ErrNotFound into errControllerRemoved.
acquireLease(ctl, oldExpiry, oldOwner, newOwner, t) ==
    LET r == AcquireMonitorLease(ctl, oldExpiry, oldOwner,
                                 t + leaseExpiryDuration, newOwner, t)
        err == IF r.err = ErrNotFound THEN errControllerRemoved ELSE r.err
    IN  IF r.err = Nil
        THEN r
        ELSE [r EXCEPT !.err = Mask(err, isMonitoringStoppedError(err)),
                       !.t = ZeroTime]

\* renewLease that takes the lease for renewed whatever acquireLease says.
renewLease_Swallow(ownerId, leaseExpiry, ctl, renew, t) ==
    LET newOwner == IF renew THEN ownerId ELSE NoOwner
        r == acquireLease(ctl, leaseExpiry, ownerId, newOwner, t)
    IN  [err |-> Nil,
         leaseExpiry |-> IF r.err = Nil THEN r.t ELSE t + leaseExpiryDuration,
         ctl |-> r.ctl]

\* controllerMonitor.renewLease: renews the lease (drops it when renew is
\* false) and sets m.leaseExpiry to the new expiry on success.
renewLease(ownerId, leaseExpiry, ctl, renew, t) ==
    LET newOwner == IF renew THEN ownerId ELSE NoOwner
        r == acquireLease(ctl, leaseExpiry, ownerId, newOwner, t)
    IN  IF r.err = Nil
        THEN [err |-> Nil, leaseExpiry |-> r.t, ctl |-> r.ctl]
        ELSE [err |-> Mask(r.err, isMonitoringStoppedError(r.err)),
              leaseExpiry |-> leaseExpiry, ctl |-> r.ctl]

\* leaseUpdater that notes a failed renewal without keeping its cause.
leaseUpdater_Notef(ownerId, leaseExpiry, ctl, branch, t) ==
    IF branch = "dying"
    THEN LET r == renewLease(ownerId, leaseExpiry, ctl, FALSE, t)
         IN  [returned |-> TRUE,
              ret |-> IF r.err # Nil
                      THEN Mask(r.err, isMonitoringStoppedError(r.err))
                      ELSE ErrDying,
              leaseExpiry |-> r.leaseExpiry, ctl |-> r.ctl]
    ELSE LET r == renewLease(ownerId, leaseExpiry, ctl, TRUE, t)
         IN  [returned |-> r.err # Nil,
              ret |-> Mask(r.err, FALSE),
              leaseExpiry |-> r.leaseExpiry, ctl |-> r.ctl]

\* A timer set for half of the lease.
renewTime_Half(leaseExpiry) == leaseExpiry - (leaseExpiryDuration \div 2)

\* The time at which leaseUpdater's timer fires: after 3/4 of the lease.
renewTime(leaseExpiry) == leaseExpiry - (leaseExpiryDuration \div 4)

\* leaseUpdater that returns when the tomb is dying without trying to drop
\* the lease.
leaseUpdater_NoDrop(ownerId, leaseExpiry, ctl, branch, t) ==
    IF branch = "dying"
    THEN [returned |-> TRUE, ret |-> ErrDying, leaseExpiry |-> leaseExpiry, ctl |-> ctl]
    ELSE LET r == renewLease(ownerId, leaseExpiry, ctl, TRUE, t)
         IN  [returned |-> r.err # Nil,
              ret |-> Mask(r.err, isMonitoringStoppedError(r.err)),
              leaseExpiry |-> r.leaseExpiry, ctl |-> r.ctl]

\* One pass of controllerMonitor.leaseUpdater's select.  branch is "timer"
\* (Clock.After fired) or "dying" (the tomb is dying).  The result holds
\* whether the loop returned, what it returned, m.leaseExpiry and the
\* controller document afterwards.
leaseUpdater(ownerId, leaseExpiry, ctl, branch, t) ==
    IF branch = "dying"
    THEN LET r == renewLease(ownerId, leaseExpiry, ctl, FALSE, t)
         IN  [returned |-> TRUE,
              ret |-> IF r.err # Nil
                      THEN Mask(r.err, isMonitoringStoppedError(r.err))
                      ELSE ErrDying,
              leaseExpiry |-> r.leaseExpiry, ctl |-> r.ctl]
    ELSE LET r == renewLease(ownerId, leaseExpiry, ctl, TRUE, t)
         IN  [returned |-> r.err # Nil,
              ret |-> Mask(r.err, isMonitoringStoppedError(r.err)),
              leaseExpiry |-> r.leaseExpiry, ctl |-> r.ctl]

(***************************************************************************)
(* SpecLease: the lease loops of several instances on shared controller    *)
(* documents.                                                              *)
(***************************************************************************)
NoMon == [pc |-> "none", leaseExpiry |-> ZeroTime, dying |-> FALSE, ret |-> Nil]

NoSnap == [read |-> FALSE, expiry |-> ZeroTime, owner |-> NoOwner]

\* The record of an acquireLease call: who called it on which controller,
\* its arguments and what it returned.  flip changes at every call.
NoAcq ==
    [flip |-> FALSE, by |-> NoOwner, c |-> "",
     oldExpiry |-> ZeroTime, oldOwner |-> NoOwner, newOwner |-> NoOwner,
     err |-> Nil, actual |-> ZeroTime]

Acq(i, c, oldExpiry, oldOwner, newOwner) ==
    LET r == acquireLease(ctls[c], oldExpiry, oldOwner, newOwner, now)
    IN  [flip |-> ~lastAcq.flip, by |-> i, c |-> c,
         oldExpiry |-> oldExpiry, oldOwner |-> oldOwner, newOwner |-> newOwner,
         err |-> r.err, actual |-> r.t]

LeaseInit ==
    /\ now = 1
    /\ ctls = [c \in Controllers |-> FreeCtl]
    /\ mons = [i \in Instances |-> [c \in Controllers |-> NoMon]]
    /\ snaps = [i \in Instances |-> [c \in Controllers |-> NoSnap]]
    /\ lastAcq = NoAcq

\* Time passes.
LTick ==
    /\ now < MaxTime
    /\ now' = now + 1
    /\ UNCHANGED <<ctls, mons, snaps, lastAcq>>
    /\ LeaseFrame

\* The supervisor of instance i lists controller c, which it is not
\* monitoring, and reads its document.
LSupRead(i, c) ==
    /\ mons[i][c].pc = "none"
    /\ ctls[c].exists
    /\ snaps' = [snaps EXCEPT ![i][c] =
                    [read |-> TRUE, expiry |-> ctls[c].expiry, owner |-> ctls[c].owner]]
    /\ UNCHANGED <<now, ctls, mons, lastAcq>>
    /\ LeaseFrame

\* The supervisor tries to acquire the lease it read, unless that lease was
\* held by another instance and not yet expired; on success it starts a
\* monitor bound to the lease.
LSupAcquire(i, c) ==
    /\ mons[i][c].pc = "none"
    /\ snaps[i][c].read
    /\ LET s == snaps[i][c]
           held == s.owner # i /\ s.owner # NoOwner /\ s.expiry > now
           r == acquireLease(ctls[c], s.expiry, s.owner, i, now)
       IN  /\ snaps' = [snaps EXCEPT ![i][c] = NoSnap]
           /\ IF held
              THEN UNCHANGED <<ctls, mons, lastAcq>>
              ELSE /\ lastAcq' = Acq(i, c, s.expiry, s.owner, i)
                   /\ ctls' = [ctls EXCEPT ![c] = r.ctl]
                   /\ mons' = IF r.err = Nil
                              THEN [mons EXCEPT ![i][c] =
                                       [pc |-> "wait", leaseExpiry |-> r.t,
                                        dying |-> FALSE, ret |-> Nil]]
                              ELSE mons
    /\ UNCHANGED now
    /\ LeaseFrame

\* leaseUpdater, timer branch: the renewal time has passed.
LRenew(i, c) ==
    /\ mons[i][c].pc = "wait"
    /\ now >= renewTime(mons[i][c].leaseExpiry)
    /\ LET m == mons[i][c]
           r == leaseUpdater(i, m.leaseExpiry, ctls[c], "timer", now)
       IN  /\ lastAcq' = Acq(i, c, m.leaseExpiry, i, i)
           /\ ctls' = [ctls EXCEPT ![c] = r.ctl]
           /\ mons' = [mons EXCEPT ![i][c] =
                          [pc |-> IF r.returned THEN "done" ELSE "wait",
                           leaseExpiry |-> r.leaseExpiry,
                           dying |-> m.dying \/ r.returned,
                           ret |-> r.ret]]
    /\ UNCHANGED <<now, snaps>>
    /\ LeaseFrame

\* leaseUpdater, dying branch: try to drop the lease, then return.
LDrop(i, c) ==
    /\ mons[i][c].pc = "wait"
    /\ mons[i][c].dying
    /\ LET m == mons[i][c]
           r == leaseUpdater(i, m.leaseExpiry, ctls[c], "dying", now)
       IN  /\ lastAcq' = Acq(i, c, m.leaseExpiry, i, NoOwner)
           /\ ctls' = [ctls EXCEPT ![c] = r.ctl]
           /\ mons' = [mons EXCEPT ![i][c] =
                          [pc |-> "done", leaseExpiry |-> r.leaseExpiry,
                           dying |-> TRUE, ret |-> r.ret]]
    /\ UNCHANGED <<now, snaps>>
    /\ LeaseFrame

\* Kill: the monitor's tomb starts dying.
LKill(i, c) ==
    /\ mons[i][c].pc = "wait"
    /\ ~mons[i][c].dying
    /\ mons' = [mons EXCEPT ![i][c].dying = TRUE]
    /\ UNCHANGED <<now, ctls, snaps, lastAcq>>
    /\ LeaseFrame

\* The supervisor sees that the monitor is dead and frees its slot.
LReap(i, c) ==
    /\ mons[i][c].pc = "done"
    /\ mons' = [mons EXCEPT ![i][c] = NoMon]
    /\ UNCHANGED <<now, ctls, snaps, lastAcq>>
    /\ LeaseFrame

\* An administrator removes the controller.
LRemoveController(c) ==
    /\ ctls[c].exists
    /\ ctls' = [ctls EXCEPT ![c] = NoCtl]
    /\ UNCHANGED <<now, mons, snaps, lastAcq>>
    /\ LeaseFrame

LeaseNext ==
    \/ LTick
    \/ \E i \in Instances, c \in Controllers : LSupRead(i, c)
    \/ \E i \in Instances, c \in Controllers : LSupAcquire(i, c)
    \/ \E i \in Instances, c \in Controllers : LRenew(i, c)
    \/ \E i \in Instances, c \in Controllers : LDrop(i, c)
    \/ \E i \in Instances, c \in Controllers : LKill(i, c)
    \/ \E i \in Instances, c \in Controllers : LReap(i, c)
    \/ \E c \in Controllers : LRemoveController(c)

(***************************************************************************)
(* Delta reducer (watcherState) and the watch loop that feeds it.          *)
(***************************************************************************)
ModelUUIDs == {"m1", "m2"}

\* Ids of the units, applications and machines of a model.
EntityNames == {"0"}

\* multiwatcher.Life values a model delta reports.
Lives == {"alive", "dying", "dead"}

EntityKinds == {"unit", "application", "machine"}

\* multiwatcher.Delta: the entity (its kind, model UUID and id, and the life
\* of a model entity) and whether it was removed.
Deltas ==
    {[kind |-> "model", model |-> m, id |-> m, removed |-> FALSE, life |-> l] :
        m \in ModelUUIDs, l \in Lives}
    \cup {[kind |-> "model", model |-> m, id |-> m, removed |-> TRUE, life |-> ""] :
        m \in ModelUUIDs}
    \cup {[kind |-> k, model |-> m, id |-> n, removed |-> r, life |-> ""] :
        k \in EntityKinds, m \in ModelUUIDs, n \in EntityNames, r \in BOOLEAN}

\* Entity.EntityId()
EntityId(d) == [kind |-> d.kind, model |-> d.model, id |-> d.id]

\* modelChange bits.
lifeChange == 1

countsChange == 2

\* ^0: every bit set.
AllChanged == {lifeChange, countsChange}

ZeroStats == [ModelCount |-> 0, UnitCount |-> 0, ServiceCount |-> 0, MachineCount |-> 0]

ZeroCounts == [unit |-> 0, machine |-> 0, application |-> 0]

\* models[uuid] == nil
NilModelInfo == [known |-> FALSE, life |-> "", counts |-> ZeroCounts, changed |-> {}]

\* newWatcherState
newWatcherState ==
    [entities |-> {}, stats |-> ZeroStats, changed |-> FALSE,
     models |-> [m \in ModelUUIDs |-> NilModelInfo], runner |-> {}]

\* parallel.Run.Do: the operation is handed to the runner.
Do(w, op) == [w EXCEPT !.runner = @ \cup {op}]

\* watcherState.adjustCount without the test that the entity is known.
adjustCount_NoTest(w, field, d) ==
    LET id == EntityId(d)
        diff == IF d.removed THEN -1 ELSE IF id \notin w.entities THEN 1 ELSE 0
        ents == IF d.removed THEN w.entities \ {id} ELSE w.entities \cup {id}
    IN  [w |-> [w EXCEPT !.entities = ents,
                         !.stats[field] = @ + diff,
                         !.changed = IF diff # 0 THEN TRUE ELSE @],
         diff |-> diff]

\* watcherState.adjustCount: adds to or takes from the counter named field
\* according to delta.Removed, keeps track of which entity ids exist, sets
\* w.changed, and returns the amount the counter was adjusted by.
adjustCount(w, field, d) ==
    LET id == EntityId(d)
        diff == IF d.removed
                THEN IF id \in w.entities THEN -1 ELSE 0
                ELSE IF id \notin w.entities THEN 1 ELSE 0
        ents == IF d.removed
                THEN w.entities \ {id}
                ELSE w.entities \cup {id}
    IN  [w |-> [w EXCEPT !.entities = ents,
                         !.stats[field] = @ + diff,
                         !.changed = IF diff # 0 THEN TRUE ELSE @],
         diff |-> diff]

\* watcherState.modelInfo: the entry for uuid, created if needed with
\* everything changed.
modelInfo(w, uuid) ==
    IF w.models[uuid].known
    THEN w
    ELSE [w EXCEPT !.models[uuid] =
             [known |-> TRUE, life |-> "", counts |-> ZeroCounts,
              changed |-> AllChanged]]

\* modelInfo.adjustCount that counts a removal as one more.
modelInfo_adjustCount_Up(info, kind, n) ==
    IF n # 0
    THEN [info EXCEPT !.counts[kind] = @ + 1, !.changed = @ \cup {countsChange}]
    ELSE info

\* modelInfo.adjustCount
modelInfo_adjustCount(info, kind, n) ==
    IF n # 0
    THEN [info EXCEPT !.counts[kind] = @ + n, !.changed = @ \cup {countsChange}]
    ELSE info

\* modelInfo.setLife
setLife(info, life) ==
    IF life # info.life
    THEN [info EXCEPT !.life = life, !.changed = @ \cup {lifeChange}]
    ELSE info

\* The controller counter that addDelta adjusts for an entity of this kind.
StatsField(kind) ==
    CASE kind = "model" -> "ModelCount"
      [] kind = "unit" -> "UnitCount"
      [] kind = "application" -> "ServiceCount"
      [] kind = "machine" -> "MachineCount"

\* watcherState.addDelta
addDelta(w, d) ==
    LET a == adjustCount(w, StatsField(d.kind), d)
        w1 == modelInfo(a.w, d.model)
    IN  CASE d.kind = "model" ->
               LET life == IF ~d.removed THEN d.life ELSE "dead"
               IN  [w1 EXCEPT !.models[d.model] = setLife(@, life)]
          [] d.kind = "machine" ->
               Do([w1 EXCEPT !.models[d.model] =
                      modelInfo_adjustCount(@, "machine", a.diff)],
                  [op |-> "UpdateMachineInfo", model |-> d.model, arg |-> d.id])
          [] OTHER ->
               [w1 EXCEPT !.models[d.model] = modelInfo_adjustCount(@, d.kind, a.diff)]

\* The flush that writes the controller statistics whether or not they
\* changed.
FlushOps_AlwaysStats(w) ==
    {[op |-> "SetControllerStats", model |-> "", arg |-> w.stats]}
    \cup {[op |-> "SetModelLife", model |-> m, arg |-> w.models[m].life] :
            m \in {u \in ModelUUIDs : w.models[u].known
                                        /\ lifeChange \in w.models[u].changed}}
    \cup {[op |-> "UpdateModelCounts", model |-> m, arg |-> w.models[m].counts] :
            m \in {u \in ModelUUIDs : w.models[u].known
                                        /\ countsChange \in w.models[u].changed}}

\* The store updates that the watch loop hands to the runner once every delta
\* of the batch has been added.
FlushOps(w) ==
    (IF w.changed
     THEN {[op |-> "SetControllerStats", model |-> "", arg |-> w.stats]}
     ELSE {})
    \cup {[op |-> "SetModelLife", model |-> m, arg |-> w.models[m].life] :
            m \in {u \in ModelUUIDs : w.models[u].known
                                        /\ lifeChange \in w.models[u].changed}}
    \cup {[op |-> "UpdateModelCounts", model |-> m, arg |-> w.models[m].counts] :
            m \in {u \in ModelUUIDs : w.models[u].known
                                        /\ countsChange \in w.models[u].changed}}

\* The flush that leaves the changed masks as they are.
Flushed_KeepChanged(w) == [w EXCEPT !.runner = {}]

\* The watcher state once the batch's updates have been handed to the runner
\* and waited for: every entry's changed mask is zero and the runner is gone.
Flushed(w) ==
    [w EXCEPT !.models = [m \in ModelUUIDs |-> [w.models[m] EXCEPT !.changed = {}]],
              !.runner = {}]

\* Deltas in one watch session.
MaxDeltas == 4

ReducerInit ==
    /\ wstate = newWatcherState
    /\ rpc = "next"
    /\ nDeltas = 0
    /\ live = {}
    /\ flushed = {}

\* apiw.Next returns a batch: w.changed is reset and a new runner made.
RNext ==
    /\ rpc = "next"
    /\ rpc' = "deltas"
    /\ wstate' = [wstate EXCEPT !.changed = FALSE, !.runner = {}]
    /\ UNCHANGED <<nDeltas, live, flushed>>
    /\ ReducerFrame

\* The next delta of the batch is added.
RAddDelta(d) ==
    /\ rpc = "deltas"
    /\ nDeltas < MaxDeltas
    /\ nDeltas' = nDeltas + 1
    /\ wstate' = addDelta(wstate, d)
    /\ live' = IF d.removed THEN live \ {EntityId(d)} ELSE live \cup {EntityId(d)}
    /\ UNCHANGED <<rpc, flushed>>
    /\ ReducerFrame

\* All deltas of the batch are processed: the updates are handed to the
\* runner and waited for.  A failed update ends the session.
RFlush(ok) ==
    /\ rpc = "deltas"
    /\ flushed' = wstate.runner \cup FlushOps(wstate)
    /\ wstate' = Flushed(wstate)
    /\ rpc' = IF ok THEN "next" ELSE "stopped"
    /\ UNCHANGED <<nDeltas, live>>
    /\ ReducerFrame

\* apiw.Next fails or the tomb is dying: watch returns.
RStop ==
    /\ rpc = "next"
    /\ rpc' = "stopped"
    /\ UNCHANGED <<wstate, nDeltas, live, flushed>>
    /\ ReducerFrame

\* The watcher loop dials again and starts a new session.
RStart ==
    /\ rpc = "stopped"
    /\ wstate' = newWatcherState
    /\ rpc' = "next"
    /\ nDeltas' = 0
    /\ live' = {}
    /\ flushed' = {}
    /\ ReducerFrame

ReducerNext ==
    \/ RNext
    \/ \E d \in Deltas : RAddDelta(d)
    \/ \E ok \in BOOLEAN : RFlush(ok)
    \/ RStop
    \/ RStart

\* Deltas in one watch session of SpecFlush.
MaxFlushDeltas == 3

\* The next delta of the batch is added, in a session of SpecFlush.
FAddDelta(d) ==
    /\ nDeltas < MaxFlushDeltas
    /\ RAddDelta(d)

\* The watch loop in shorter sessions, for what is checked of every delta
\* at every state.
FlushNext ==
    \/ RNext
    \/ \E d \in Deltas : FAddDelta(d)
    \/ \E ok \in BOOLEAN : RFlush(ok)
    \/ RStop
    \/ RStart

(***************************************************************************)
(* SpecMonitor: one controller monitor (instance j1 on one controller):    *)
(* its tomb, lease loop, watcher loop, the goroutine of dialAPI and the    *)
(* goroutine that calls the watcher's Next.  Another instance (j2), the    *)
(* clock, Kill and the removal of the controller are its environment.      *)
(***************************************************************************)
Me == "j1"

Other == "j2"

\* Connections that OpenAPI hands out in one run of the monitor; once they
\* are used up OpenAPI fails.
MaxDials == 2

\* The last tick of the monitor's clock.
MaxMonTime == 5

\* apiConnectRetryDuration, scaled to ticks.
apiConnectRetryDuration == 1

ConnIds == 1 .. MaxDials

\* tomb.Tomb.Kill(reason): the first call makes the tomb dying; ErrDying
\* never becomes the reason; an error replaces a nil reason.
TombKill(t, reason) ==
    IF reason = ErrDying THEN t
    ELSE IF ~t.dying THEN [dying |-> TRUE, reason |-> reason]
    ELSE IF t.reason = Nil THEN [t EXCEPT !.reason = reason]
    ELSE t

\* A goroutine started with tomb.Go returns err.
TombReturn(t, err) == IF err = Nil THEN t ELSE TombKill(t, err)

\* errgo.Notef(err, ...): the new error is its own cause.
Notef(err) == Mask(err, FALSE)

\* dialAPI's treatment of the error that OpenAPI returned.
dialAPI(err) ==
    LET e == IF err = ErrNotFound THEN errControllerRemoved ELSE err
    IN  Mask(e, isMonitoringStoppedError(e) \/ e = ErrAPIConnection)

\* watcher's switch, going from a successful dial straight to watch.
watcherSwitch_NoCredentials(cause) ==
    CASE cause = Nil -> "watch"
      [] cause = ErrDying -> "done"
      [] cause = ErrAPIConnection -> "unavailable"
      [] OTHER -> "done"

\* watcher's switch on the cause of dialAPI's error: where the loop goes.
watcherSwitch(cause) ==
    CASE cause = Nil -> "available"
      [] cause = ErrDying -> "done"
      [] cause = ErrAPIConnection -> "unavailable"
      [] OTHER -> "done"

\* What watcher returns from its switch when it returns there.
watcherSwitchRet(cause) ==
    IF cause = ErrDying THEN ErrDying ELSE Mask(cause, isMonitoringStoppedError(cause))

\* The credential as UpdateCredential left it on a controller that holds it:
\* pushed, and in no pending-update set.
PushedCredential == [pending |-> FALSE, onController |-> "UpdateCredential"]

\* JEM.UpdateCredential, for a controller that holds the credential: the
\* credential is stored, then pushed to the controller; when the push fails
\* the controller is put into the credential's pending-update set
\* (SetCredentialUpdates).  onController names the call whose push the
\* controller holds, or is "stale" when it holds an older credential.
UpdateCredential(c, pushOk) ==
    IF pushOk
    THEN [c EXCEPT !.onController = "UpdateCredential"]
    ELSE [pending |-> TRUE, onController |-> "stale"]

\* JEM.ControllerUpdateCredentials: a credential that has the controller in
\* its pending-update set is pushed to the controller and the controller
\* is taken out of the set; a failure leaves the set as it is.
ControllerUpdateCredentials(c, ok) ==
    IF ok /\ c.pending
    THEN [pending |-> FALSE, onController |-> "ControllerUpdateCredentials"]
    ELSE c

\* The next unused connection handle.
NewConn == CHOOSE id \in ConnIds : conns[id] = "unused" /\ \A k \in ConnIds : k < id => conns[k] # "unused"

MonitorInit ==
    /\ mclock = 1
    /\ mctl = [exists |-> TRUE, expiry |-> 1 + leaseExpiryDuration, owner |-> Me,
               unavailableSince |-> ZeroTime]
    /\ tomb = [dying |-> FALSE, reason |-> Nil]
    /\ killed = FALSE
    /\ lpc = "wait"
    /\ mLeaseExpiry = 1 + leaseExpiryDuration
    /\ lret = Nil
    /\ lraw = Nil
    /\ wpc = "dial"
    /\ wret = Nil
    /\ dialStartTime = ZeroTime
    /\ sleepUntil = ZeroTime
    /\ conn = 0
    /\ dg = "none"
    /\ dgConn = 0
    /\ dgErr = Nil
    /\ conns = [id \in ConnIds |-> "unused"]
    /\ nextG = "none"
    /\ nextErr = FALSE
    /\ wrote = FALSE
    /\ mcred = PushedCredential

lockVars == <<lpc, mLeaseExpiry, lret, lraw>>

watcherVars == <<wpc, wret, dialStartTime, sleepUntil, conn>>

dialVars == <<dg, dgConn, dgErr>>

nextVars == <<nextG, nextErr>>

\* ---- environment ----
MTick ==
    /\ mclock < MaxMonTime
    /\ mclock' = mclock + 1
    /\ UNCHANGED <<mctl, tomb, killed, lockVars, watcherVars, dialVars, conns, nextVars, wrote>>
    /\ UNCHANGED credVars
    /\ MonitorFrame

\* Kill
MKill ==
    /\ ~killed
    /\ killed' = TRUE
    /\ tomb' = TombKill(tomb, Nil)
    /\ UNCHANGED <<mclock, mctl, lockVars, watcherVars, dialVars, conns, nextVars, wrote>>
    /\ UNCHANGED credVars
    /\ MonitorFrame

\* The other instance finds the lease free or expired and acquires it.
MOtherAcquire ==
    /\ mctl.exists
    /\ mctl.owner # Other
    /\ LeaseExpired(mctl, mclock)
    /\ mctl' = AcquireMonitorLease(mctl, mctl.expiry, mctl.owner,
                                   mclock + leaseExpiryDuration, Other, mclock).ctl
    /\ UNCHANGED <<mclock, tomb, killed, lockVars, watcherVars, dialVars, conns, nextVars, wrote>>
    /\ UNCHANGED credVars
    /\ MonitorFrame

\* The controller is removed from the store.
MRemoveController ==
    /\ mctl.exists
    /\ mctl' = [mctl EXCEPT !.exists = FALSE]
    /\ UNCHANGED <<mclock, tomb, killed, lockVars, watcherVars, dialVars, conns, nextVars, wrote>>
    /\ UNCHANGED credVars
    /\ MonitorFrame

\* ---- leaseUpdater ----
MLease(branch) ==
    /\ lpc = "wait"
    /\ IF branch = "dying" THEN tomb.dying ELSE mclock >= renewTime(mLeaseExpiry)
    /\ LET r == leaseUpdater(Me, mLeaseExpiry, mctl, branch, mclock)
           raw == AcquireMonitorLease(mctl, mLeaseExpiry, Me,
                                      mclock + leaseExpiryDuration,
                                      IF branch = "dying" THEN NoOwner ELSE Me,
                                      mclock).err
       IN  /\ mctl' = r.ctl
           /\ mLeaseExpiry' = r.leaseExpiry
           /\ lpc' = IF r.returned THEN "done" ELSE "wait"
           /\ lret' = r.ret
           /\ lraw' = IF branch = "dying" THEN lraw ELSE raw
           /\ tomb' = IF r.returned THEN TombReturn(tomb, r.ret) ELSE tomb
           /\ wrote' = IF r.ctl # mctl THEN ~wrote ELSE wrote
    /\ UNCHANGED <<mclock, killed, watcherVars, dialVars, conns, nextVars>>
    /\ UNCHANGED credVars
    /\ MonitorFrame

\* ---- watcher ----
\* The top of the loop: note the time and start dialAPI, which starts the
\* goroutine that opens the API.
MDial ==
    /\ wpc = "dial"
    /\ dialStartTime' = mclock
    /\ wpc' = "dialAPI"
    /\ dg' = "open"
    /\ dgConn' = 0
    /\ dgErr' = Nil
    /\ UNCHANGED <<mclock, mctl, tomb, killed, lockVars, wret, sleepUntil, conn, conns, nextVars, wrote>>
    /\ UNCHANGED credVars
    /\ MonitorFrame

\* The connections in the API-connection cache that OpenAPI can hand out
\* again: those released with Close.  An evicted connection is not among
\* them.
CachedConns == {id \in ConnIds : conns[id] = "closed"}

\* The connection that a successful OpenAPI returns: one from the cache
\* when there is one, otherwise a newly dialled one.
OpenedConn ==
    IF CachedConns # {} THEN CHOOSE id \in CachedConns : TRUE ELSE NewConn

\* dialAPI's goroutine: OpenAPI returns, with a connection or an error.
MOpenAPI(err) ==
    /\ dg = "open"
    /\ IF mctl.exists THEN err # ErrNotFound ELSE err = ErrNotFound
    /\ err = Nil => (CachedConns # {} \/ \E id \in ConnIds : conns[id] = "unused")
    /\ dg' = "reply"
    /\ dgErr' = err
    /\ IF err = Nil
       THEN /\ dgConn' = OpenedConn
            /\ conns' = [conns EXCEPT ![OpenedConn] = "open"]
       ELSE UNCHANGED <<dgConn, conns>>
    /\ UNCHANGED <<mclock, mctl, tomb, killed, lockVars, watcherVars, nextVars, wrote>>
    /\ UNCHANGED credVars
    /\ MonitorFrame

\* dialAPI's goroutine finds the tomb dying before its reply is taken: it
\* closes the connection, if it has one.
MDialGoDying ==
    /\ dg = "reply"
    /\ tomb.dying
    /\ dg' = "done"
    /\ conns' = IF dgConn # 0 THEN [conns EXCEPT ![dgConn] = "closed"] ELSE conns
    /\ UNCHANGED <<mclock, mctl, tomb, killed, lockVars, watcherVars, dgConn, dgErr, nextVars, wrote>>
    /\ UNCHANGED credVars
    /\ MonitorFrame

\* dialAPI receives the reply; watcher switches on the error's cause.
MDialReply ==
    /\ wpc = "dialAPI"
    /\ dg = "reply"
    /\ dg' = "done"
    /\ LET cause == dialAPI(dgErr)
       IN  /\ wpc' = watcherSwitch(cause)
           /\ conn' = IF cause = Nil THEN dgConn ELSE 0
           /\ IF watcherSwitch(cause) = "done"
              THEN /\ wret' = watcherSwitchRet(cause)
                   /\ tomb' = TombReturn(tomb, watcherSwitchRet(cause))
              ELSE UNCHANGED <<wret, tomb>>
    /\ UNCHANGED <<mclock, mctl, killed, lockVars, dialStartTime, sleepUntil, dgConn, dgErr, conns, nextVars, wrote>>
    /\ UNCHANGED credVars
    /\ MonitorFrame

\* dialAPI finds the tomb dying: watcher returns tomb.ErrDying.
MDialDying ==
    /\ wpc = "dialAPI"
    /\ tomb.dying
    /\ wpc' = watcherSwitch(ErrDying)
    /\ wret' = watcherSwitchRet(ErrDying)
    /\ UNCHANGED <<mclock, mctl, tomb, killed, lockVars, dialStartTime, sleepUntil, conn, dialVars, conns, nextVars, wrote>>
    /\ UNCHANGED credVars
    /\ MonitorFrame

\* watcher returns err from a store call that failed.
WatcherFails(err) ==
    /\ wpc' = "done"
    /\ wret' = Notef(err)
    /\ tomb' = TombReturn(tomb, Notef(err))

\* SetControllerAvailable
MSetAvailable(ok) ==
    /\ wpc = "available"
    /\ IF ok /\ mctl.exists
       THEN /\ mctl' = [mctl EXCEPT !.unavailableSince = ZeroTime]
            /\ wrote' = ~wrote
            /\ wpc' = "credentials"
            /\ UNCHANGED <<wret, tomb>>
       ELSE /\ WatcherFails(IF mctl.exists THEN ErrOther ELSE ErrNotFound)
            /\ UNCHANGED <<mctl, wrote>>
    /\ UNCHANGED <<mclock, killed, lockVars, dialStartTime, sleepUntil, conn, dialVars, conns, nextVars>>
    /\ UNCHANGED credVars
    /\ MonitorFrame

\* A credential of the controller is updated while the monitor runs.
MCredentialUpdate(pushOk) ==
    /\ mcred' = UpdateCredential(mcred, pushOk)
    /\ UNCHANGED monVars
    /\ MonitorFrame

\* ControllerUpdateCredentials, then the start of watch: WatchAllModels is
\* called next.
MUpdateCredentials(ok) ==
    /\ wpc = "credentials"
    /\ mcred' = ControllerUpdateCredentials(mcred, ok)
    /\ IF ok
       THEN /\ wpc' = "watch"
            /\ wrote' = ~wrote
            /\ UNCHANGED <<wret, tomb>>
       ELSE /\ WatcherFails(ErrOther)
            /\ UNCHANGED wrote
    /\ UNCHANGED <<mclock, mctl, killed, lockVars, dialStartTime, sleepUntil, conn, dialVars, conns, nextVars>>
    /\ MonitorFrame

\* watch returned an error that is not ErrDying, and the connection is
\* released with Close.
WatchDied_Close ==
    /\ conns' = [conns EXCEPT ![conn] = "closed"]
    /\ conn' = 0
    /\ wpc' = "sleep"
    /\ sleepUntil' = mclock + apiConnectRetryDuration

\* watch returned an error that is not ErrDying: the connection is evicted
\* and the loop goes to sleep.
WatchDied ==
    /\ conns' = [conns EXCEPT ![conn] = "evicted"]
    /\ conn' = 0
    /\ wpc' = "sleep"
    /\ sleepUntil' = mclock + apiConnectRetryDuration

\* One more turn of watch's loop: a goroutine is started that calls Next.
WatchGoNext ==
    /\ wpc' = "select"
    /\ nextG' = "calling"
    /\ UNCHANGED <<conn, conns, sleepUntil>>

\* watch: conn.WatchAllModels.
MWatchAllModels(ok) ==
    /\ wpc = "watch"
    /\ IF ok
       THEN WatchGoNext /\ nextErr' = FALSE
       ELSE WatchDied /\ UNCHANGED nextVars
    /\ UNCHANGED <<mclock, mctl, tomb, killed, lockVars, wret, dialStartTime, dialVars, wrote>>
    /\ UNCHANGED credVars
    /\ MonitorFrame

\* The goroutine's apiw.Next returns and it sends the reply, which the
\* channel's buffer takes.
MNextReturns(err) ==
    /\ nextG = "calling"
    /\ nextG' = "sent"
    /\ nextErr' = err
    /\ UNCHANGED <<mclock, mctl, tomb, killed, lockVars, watcherVars, dialVars, conns, wrote>>
    /\ UNCHANGED credVars
    /\ MonitorFrame

\* watch receives the reply.
MWatchReply ==
    /\ wpc = "select"
    /\ nextG = "sent"
    /\ nextG' = "none"
    /\ nextErr' = FALSE
    /\ IF nextErr
       THEN WatchDied
       ELSE wpc' = "flush" /\ UNCHANGED <<conn, conns, sleepUntil>>
    /\ UNCHANGED <<mclock, mctl, tomb, killed, lockVars, wret, dialStartTime, dialVars, wrote>>
    /\ UNCHANGED credVars
    /\ MonitorFrame

\* watch finds the tomb dying and returns tomb.ErrDying: watcher closes the
\* connection and returns.
MWatchDying ==
    /\ wpc = "select"
    /\ tomb.dying
    /\ conns' = [conns EXCEPT ![conn] = "closed"]
    /\ conn' = 0
    /\ wpc' = "done"
    /\ wret' = ErrDying
    /\ UNCHANGED <<mclock, mctl, tomb, killed, lockVars, dialStartTime, sleepUntil, dialVars, nextVars, wrote>>
    /\ UNCHANGED credVars
    /\ MonitorFrame

\* watch adds the deltas of the batch and waits for the store updates they
\* cause (none when nothing changed).
MFlush(writes, ok) ==
    /\ wpc = "flush"
    /\ wrote' = IF writes THEN ~wrote ELSE wrote
    /\ IF ok \/ ~writes
       THEN WatchGoNext /\ nextErr' = FALSE
       ELSE WatchDied /\ UNCHANGED nextVars
    /\ UNCHANGED <<mclock, mctl, tomb, killed, lockVars, wret, dialStartTime, dialVars>>
    /\ UNCHANGED credVars
    /\ MonitorFrame

\* SetControllerUnavailableAt with the time of the call.
MSetUnavailable_Now(ok) ==
    /\ wpc = "unavailable"
    /\ IF ok /\ mctl.exists
       THEN /\ mctl' = [mctl EXCEPT !.unavailableSince = mclock]
            /\ wrote' = ~wrote
            /\ wpc' = "sleep"
            /\ sleepUntil' = mclock + apiConnectRetryDuration
            /\ UNCHANGED <<wret, tomb>>
       ELSE /\ WatcherFails(IF mctl.exists THEN ErrOther ELSE ErrNotFound)
            /\ UNCHANGED <<mctl, wrote, sleepUntil>>
    /\ UNCHANGED <<mclock, killed, lockVars, dialStartTime, conn, dialVars, conns, nextVars>>
    /\ UNCHANGED credVars
    /\ MonitorFrame

\* SetControllerUnavailableAt(dialStartTime)
MSetUnavailable(ok) ==
    /\ wpc = "unavailable"
    /\ IF ok /\ mctl.exists
       THEN /\ mctl' = [mctl EXCEPT !.unavailableSince = dialStartTime]
            /\ wrote' = ~wrote
            /\ wpc' = "sleep"
            /\ sleepUntil' = mclock + apiConnectRetryDuration
            /\ UNCHANGED <<wret, tomb>>
       ELSE /\ WatcherFails(IF mctl.exists THEN ErrOther ELSE ErrNotFound)
            /\ UNCHANGED <<mctl, wrote, sleepUntil>>
    /\ UNCHANGED <<mclock, killed, lockVars, dialStartTime, conn, dialVars, conns, nextVars>>
    /\ UNCHANGED credVars
    /\ MonitorFrame

\* The sleep before the next dial ends: the retry time has passed.
MSleepOver ==
    /\ wpc = "sleep"
    /\ mclock >= sleepUntil
    /\ wpc' = "dial"
    /\ sleepUntil' = ZeroTime
    /\ UNCHANGED <<mclock, mctl, tomb, killed, lockVars, wret, dialStartTime, conn, dialVars, conns, nextVars, wrote>>
    /\ UNCHANGED credVars
    /\ MonitorFrame

\* The sleep ends because the tomb is dying.
MSleepDying ==
    /\ wpc = "sleep"
    /\ tomb.dying
    /\ wpc' = "done"
    /\ wret' = ErrDying
    /\ UNCHANGED <<mclock, mctl, tomb, killed, lockVars, dialStartTime, sleepUntil, conn, dialVars, conns, nextVars, wrote>>
    /\ UNCHANGED credVars
    /\ MonitorFrame

MonitorNext ==
    \/ MTick
    \/ MKill
    \/ MOtherAcquire
    \/ MRemoveController
    \/ \E b \in {"timer", "dying"} : MLease(b)
    \/ MDial
    \/ \E e \in {Nil, ErrAPIConnection, ErrNotFound, ErrOther} : MOpenAPI(e)
    \/ MDialGoDying
    \/ MDialReply
    \/ MDialDying
    \/ \E ok \in BOOLEAN : MSetAvailable(ok)
    \/ \E ok \in BOOLEAN : MUpdateCredentials(ok)
    \/ \E ok \in BOOLEAN : MWatchAllModels(ok)
    \/ \E e \in BOOLEAN : MNextReturns(e)
    \/ MWatchReply
    \/ MWatchDying
    \/ \E wr, ok \in BOOLEAN : MFlush(wr, ok)
    \/ \E ok \in BOOLEAN : MSetUnavailable(ok)
    \/ MSleepOver
    \/ MSleepDying

\* The watcher loop and, beside it, updates of a credential the controller
\* holds.  The lease loop stays in its select: it acts on the watcher loop
\* only through the tomb, which Kill makes dying too.
WatcherCredNext ==
    \/ MTick
    \/ MKill
    \/ MRemoveController
    \/ MDial
    \/ \E e \in {Nil, ErrAPIConnection, ErrNotFound, ErrOther} : MOpenAPI(e)
    \/ MDialGoDying
    \/ MDialReply
    \/ MDialDying
    \/ \E ok \in BOOLEAN : MSetAvailable(ok)
    \/ \E ok \in BOOLEAN : MUpdateCredentials(ok)
    \/ \E ok \in BOOLEAN : MWatchAllModels(ok)
    \/ \E e \in BOOLEAN : MNextReturns(e)
    \/ MWatchReply
    \/ MWatchDying
    \/ \E wr, ok \in BOOLEAN : MFlush(wr, ok)
    \/ \E ok \in BOOLEAN : MSetUnavailable(ok)
    \/ MSleepOver
    \/ MSleepDying
    \/ \E ok \in BOOLEAN : MCredentialUpdate(ok)

(***************************************************************************)
(* SpecWatch: Watcher.Watch, its runner and the controller watchers it     *)
(* starts, as far as their start, their dial and their end.                *)
(***************************************************************************)
WatchControllers == {"c1", "c2"}

\* Goroutines that can be live at once.
MaxGoroutines == 3

Gids == 1 .. MaxGoroutines

ErrCtx == "context canceled"

ErrDatabaseLocked == "database locked"

ErrDatabase == "database error"

FreeSlot == [pc |-> "free", name |-> "", unavailable |-> FALSE, tracked |-> FALSE]

\* newRunner
newRunner == [running |-> [c \in WatchControllers |-> FALSE], wg |-> 0]

\* runner.run(name, f): starts f in a goroutine unless one started under
\* that name is still running.
run(r, name) ==
    IF r.running[name]
    THEN [r |-> r, start |-> FALSE, tracked |-> FALSE]
    ELSE [r |-> [running |-> [r.running EXCEPT ![name] = TRUE], wg |-> r.wg + 1],
          start |-> TRUE, tracked |-> TRUE]

\* The end of a goroutine that runner.run started.
runnerDone(r, name) ==
    [running |-> [r.running EXCEPT ![name] = FALSE], wg |-> r.wg - 1]

\* runner.wait can return.
wait(r) == r.wg = 0

\* The callback that starts the controller's watcher with a go statement of
\* its own.
WatchVisit_Go(r, name) == [r |-> r, start |-> TRUE, tracked |-> FALSE]

\* The callback Watch gives to ForEachController: r.run(ctl.Name, ...).
WatchVisit(r, name) == run(r, name)

\* Watch's deferred calls that leave the runner unwaited.
Deferred_NoWait == <<"ticker.Stop", "cancel">>

\* Watch's deferred calls, in the order they run when it returns.
Deferred == <<"ticker.Stop", "cancel", "r.wait">>

\* The goroutines of controller c that have not returned.
LiveOf(c) == {g \in Gids : slot[g].pc # "free" /\ slot[g].name = c}

FirstFree == CHOOSE g \in Gids : slot[g].pc = "free" /\ \A k \in Gids : k < g => slot[k].pc # "free"

\* Watch that returns on every error of ForEachController.
WatchReturnsOn_Any(err) == err # Nil

\* Whether Watch returns the error of ForEachController: temporary
\* database errors (DatabaseLocked) are ignored.
WatchReturnsOn(err) == err # Nil /\ err # ErrDatabaseLocked

WatchInit ==
    /\ spc = "poll"
    /\ sret = Nil
    /\ defers = <<>>
    /\ parentDone = FALSE
    /\ ctxDone = FALSE
    /\ sctls = [c \in WatchControllers |->
                  [exists |-> c = "c1", unavailable |-> FALSE]]
    /\ visited = {}
    /\ runnerState = newRunner
    /\ slot = [g \in Gids |-> FreeSlot]
    /\ lastVisit = [c \in WatchControllers |-> "none"]
    /\ lastDial = [c \in WatchControllers |-> "none"]
    /\ lastPoll = "none"

\* ForEachController calls the callback for controller c.
SForEach(c) ==
    /\ spc = "poll"
    /\ sctls[c].exists
    /\ c \notin visited
    /\ visited' = visited \cup {c}
    /\ LET v == WatchVisit(runnerState, c)
       IN  /\ runnerState' = v.r
           /\ lastVisit' = [lastVisit EXCEPT ![c] = IF v.start THEN "started" ELSE "skipped"]
           /\ IF v.start
              THEN /\ \E g \in Gids : slot[g].pc = "free"
                   /\ slot' = [slot EXCEPT ![FirstFree] =
                                 [pc |-> "dial", name |-> c,
                                  unavailable |-> sctls[c].unavailable,
                                  tracked |-> v.tracked]]
              ELSE UNCHANGED slot
    /\ UNCHANGED <<spc, sret, defers, parentDone, ctxDone, sctls, lastDial>>
    /\ UNCHANGED lastPoll
    /\ WatchFrame

\* ForEachController returns: with nil once every controller has been
\* visited, or with an error at any point.
SForEachReturns(err) ==
    /\ spc = "poll"
    /\ err = Nil => \A c \in WatchControllers : sctls[c].exists => c \in visited
    /\ visited' = {}
    /\ lastPoll' = err
    /\ IF ~WatchReturnsOn(err)
       THEN /\ spc' = "select"
            /\ UNCHANGED <<sret, defers>>
       ELSE /\ spc' = "return"
            /\ sret' = err
            /\ defers' = Deferred
    /\ UNCHANGED <<parentDone, ctxDone, sctls, runnerState, slot, lastVisit, lastDial>>
    /\ WatchFrame

\* The select at the end of the loop: the ticker ticks.
SSelectTick ==
    /\ spc = "select"
    /\ spc' = "poll"
    /\ UNCHANGED <<sret, defers, parentDone, ctxDone, sctls, visited, runnerState, slot, lastVisit, lastDial>>
    /\ UNCHANGED lastPoll
    /\ WatchFrame

\* The select at the end of the loop: the context is done.
SSelectDone ==
    /\ spc = "select"
    /\ ctxDone
    /\ spc' = "return"
    /\ sret' = ErrCtx
    /\ defers' = Deferred
    /\ UNCHANGED <<parentDone, ctxDone, sctls, visited, runnerState, slot, lastVisit, lastDial>>
    /\ UNCHANGED lastPoll
    /\ WatchFrame

\* Watch runs its next deferred call, and has returned after the last.
SDefer ==
    /\ spc = "return"
    /\ defers # <<>>
    /\ Head(defers) = "r.wait" => wait(runnerState)
    /\ ctxDone' = (ctxDone \/ Head(defers) = "cancel")
    /\ defers' = Tail(defers)
    /\ spc' = IF Tail(defers) = <<>> THEN "returned" ELSE "return"
    /\ UNCHANGED <<sret, parentDone, sctls, visited, runnerState, slot, lastVisit, lastDial>>
    /\ UNCHANGED lastPoll
    /\ WatchFrame

\* The goroutine in slot g returns.
Exit(g) ==
    /\ slot' = [slot EXCEPT ![g] = FreeSlot]
    /\ runnerState' = IF slot[g].tracked
                      THEN runnerDone(runnerState, slot[g].name)
                      ELSE runnerState

\* dialController in watchController: Dialer.Dial returns.  When it fails
\* and the controller was available when the poll read it, the controller
\* is marked unavailable (saved tells whether UpdateController succeeds) and
\* the watcher returns the error.
dialController(g, ok, saved) ==
    /\ slot[g].pc = "dial"
    /\ ok => ~saved
    /\ lastDial' = [lastDial EXCEPT ![slot[g].name] = IF ok THEN "ok" ELSE "failed"]
    /\ IF ok
       THEN /\ slot' = [slot EXCEPT ![g].pc = "session"]
            /\ UNCHANGED <<sctls, runnerState>>
       ELSE /\ sctls' = IF ~slot[g].unavailable /\ saved
                        THEN [sctls EXCEPT ![slot[g].name].unavailable = TRUE]
                        ELSE sctls
            /\ Exit(g)
    /\ UNCHANGED <<spc, sret, defers, parentDone, ctxDone, visited, lastVisit>>
    /\ UNCHANGED lastPoll
    /\ WatchFrame

\* watchController returns after its dial succeeded: a call on the
\* controller's API failed, which a cancelled context causes too.
watchControllerReturns(g) ==
    /\ slot[g].pc = "session"
    /\ Exit(g)
    /\ UNCHANGED <<spc, sret, defers, parentDone, ctxDone, sctls, visited, lastVisit, lastDial>>
    /\ UNCHANGED lastPoll
    /\ WatchFrame

\* The caller of Watch cancels the context.
SParentCancel ==
    /\ ~parentDone
    /\ parentDone' = TRUE
    /\ ctxDone' = TRUE
    /\ UNCHANGED <<spc, sret, defers, sctls, visited, runnerState, slot, lastVisit, lastDial>>
    /\ UNCHANGED lastPoll
    /\ WatchFrame

\* A controller is added to the database.
SAddController(c) ==
    /\ ~sctls[c].exists
    /\ sctls' = [sctls EXCEPT ![c].exists = TRUE]
    /\ UNCHANGED <<spc, sret, defers, parentDone, ctxDone, visited, runnerState, slot, lastVisit, lastDial>>
    /\ UNCHANGED lastPoll
    /\ WatchFrame

WatchNext ==
    \/ \E c \in WatchControllers : SForEach(c)
    \/ \E err \in {Nil, ErrDatabaseLocked, ErrDatabase} : SForEachReturns(err)
    \/ SSelectTick
    \/ SSelectDone
    \/ SDefer
    \/ \E g \in Gids, ok, saved \in BOOLEAN : dialController(g, ok, saved)
    \/ \E g \in Gids : watchControllerReturns(g)
    \/ SParentCancel
    \/ \E c \in WatchControllers : SAddController(c)

(***************************************************************************)
(* SpecWatchController: one controller's watcher (Watcher.watchController) *)
(* after its dial: the check of the controller's models, then the batches  *)
(* of deltas.  Users who create models and mark them dying are its         *)
(* environment.  Calls on the database can fail; a failed transaction      *)
(* writes nothing.                                                         *)
(***************************************************************************)
\* Model rows.  The rows below MaxRows have the UUID that equals their ID;
\* row MaxRows is still being initialised and has none.  UUID MaxRows is
\* that of a model the database has no row for.
MaxRows == 2

RowIds == 1 .. MaxRows

UUIDs == 1 .. MaxRows

\* m.UUID of row id (NoUUID: not valid).
NoUUID == 0

UUIDOf(id) == IF id < MaxRows THEN id ELSE NoUUID

\* modelIDs has no entry.
NotCached == -1

ErrAPI == "api error"

ModelLives == {"alive", "dying", "dead"}

\* The deltas of the all-watcher: of a model (its life) or of its unit "0".
ModelDeltas ==
    [kind : {"model"}, uuid : UUIDs, removed : {FALSE}, life : ModelLives]
        \cup [kind : {"model", "unit"}, uuid : UUIDs, removed : {TRUE}, life : {""}]
        \cup [kind : {"unit"}, uuid : UUIDs, removed : {FALSE}, life : {""}]

Present(db, id) == id \in RowIds /\ db[id].state = "present"

\* Database.GetModel by UUID: the ID of the row, 0 when there is none.
GetModelByUUID(db, uuid) ==
    IF \E id \in RowIds : Present(db, id) /\ UUIDOf(id) = uuid
    THEN CHOOSE id \in RowIds : Present(db, id) /\ UUIDOf(id) = uuid
    ELSE 0

\* checkDyingModel that calls ModelInfo for every model.
checkDyingModel_Always(m) == TRUE

\* checkDyingModel: ModelInfo is called for the models whose life is dying.
checkDyingModel(m) == m.life = "dying"

\* checkDyingModel after ModelInfo returned: the model is deleted when the
\* controller answered not found; any other error is returned.
checkDyingModelReply(db, id, reply, dbok) ==
    CASE reply = "ok" -> [db |-> db, err |-> Nil]
      [] reply = "notfound" ->
            IF dbok
            THEN [db |-> [db EXCEPT ![id].state = "deleted"], err |-> Nil]
            ELSE [db |-> db, err |-> ErrDatabase]
      [] OTHER -> [db |-> db, err |-> ErrAPI]

\* modelIDf: the cached ID, or the ID that GetModel finds (0 when there is
\* no row), which is cached; 0 and nothing cached when GetModel fails.
modelIDf(ids, db, uuid, getok) ==
    IF ids[uuid] # NotCached
    THEN [id |-> ids[uuid], ids |-> ids]
    ELSE IF getok
    THEN [id |-> GetModelByUUID(db, uuid),
          ids |-> [ids EXCEPT ![uuid] = GetModelByUUID(db, uuid)]]
    ELSE [id |-> 0, ids |-> ids]

\* deleteModel that deletes the row whatever its life.
deleteModel_NoLifeTest(db, id, dbok) ==
    IF ~dbok THEN [db |-> db, err |-> ErrDatabase]
    ELSE IF ~Present(db, id) THEN [db |-> db, err |-> Nil]
    ELSE [db |-> [db EXCEPT ![id].state = "deleted"], err |-> Nil]

\* Watcher.deleteModel: in one transaction, reads the row by its ID and
\* deletes it when its life is dying.
deleteModel(db, id, dbok) ==
    IF ~dbok THEN [db |-> db, err |-> ErrDatabase]
    ELSE IF ~Present(db, id) THEN [db |-> db, err |-> Nil]
    ELSE IF db[id].life # "dying" THEN [db |-> db, err |-> Nil]
    ELSE [db |-> [db EXCEPT ![id].state = "deleted"], err |-> Nil]

\* Watcher.updateModel: in one transaction, reads the row by its ID and
\* saves it with the delta's life.  (Saving a row that is gone is taken to
\* change no row.)
updateModel(db, id, life, dbok) ==
    IF ~dbok THEN [db |-> db, err |-> ErrDatabase]
    ELSE IF ~Present(db, id) THEN [db |-> db, err |-> Nil]
    ELSE [db |-> [db EXCEPT ![id].life = life], err |-> Nil]

\* Watcher.handleDelta.  The result holds the rows, the unit rows (units
\* flips when DeleteUnit or updateUnit writes), modelIDs and the error
\* afterwards, and the ID that modelIDf gave.
handleDelta(db, units, ids, d, getok, dbok) ==
    LET f == modelIDf(ids, db, d.uuid, getok)
        same == [db |-> db, units |-> units, ids |-> f.ids, id |-> f.id, err |-> Nil]
    IN  IF f.id = 0 THEN same
        ELSE IF d.kind = "model"
        THEN LET r == IF d.removed
                      THEN deleteModel(db, f.id, dbok)
                      ELSE updateModel(db, f.id, d.life, dbok)
             IN  [same EXCEPT !.db = r.db, !.err = r.err]
        ELSE IF ~dbok THEN [same EXCEPT !.err = ErrDatabase]
        ELSE [same EXCEPT !.units = ~units]

NoHandled ==
    [set |-> FALSE, d |-> [kind |-> "", uuid |-> 0, removed |-> FALSE, life |-> ""],
     id |-> 0, dbok |-> FALSE, wrote |-> FALSE]

NoModels == [id \in RowIds |-> [state |-> "absent", life |-> "alive"]]

NoModelIDs == [u \in UUIDs |-> NotCached]

NoAnswers == [id \in RowIds |-> "none"]

WatchControllerInit ==
    /\ dbModels = NoModels
    /\ dbUnits = FALSE
    /\ snapModels = NoModels
    /\ modelIDs = NoModelIDs
    /\ cpc = "start"
    /\ cur = 0
    /\ checked = {}
    /\ answers = NoAnswers
    /\ consumed = FALSE
    /\ cret = Nil
    /\ lastH = NoHandled

\* watchController returns err.
CReturn(err) ==
    /\ cpc' = "done"
    /\ cret' = err

\* checkControllerModels: ForEachControllerModel reads the rows.
CQuery(ok) ==
    /\ cpc = "start"
    /\ IF ok
       THEN /\ snapModels' = dbModels
            /\ cpc' = "check"
            /\ UNCHANGED cret
       ELSE /\ CReturn(ErrDatabase)
            /\ UNCHANGED snapModels
    /\ UNCHANGED <<dbModels, dbUnits, modelIDs, cur, checked, answers, consumed>>
    /\ lastH' = NoHandled
    /\ WatchControllerFrame

\* checkControllerModels: the callback for row id, up to the call of
\* ModelInfo if checkDyingModel makes one.
CCheck(id) ==
    /\ cpc = "check"
    /\ Present(snapModels, id)
    /\ id \notin checked
    /\ IF UUIDOf(id) = NoUUID
       THEN /\ checked' = checked \cup {id}
            /\ UNCHANGED <<modelIDs, cpc, cur>>
       ELSE IF checkDyingModel(snapModels[id])
       THEN /\ cpc' = "modelinfo"
            /\ cur' = id
            /\ UNCHANGED <<modelIDs, checked>>
       ELSE /\ checked' = checked \cup {id}
            /\ modelIDs' = [modelIDs EXCEPT ![UUIDOf(id)] = id]
            /\ UNCHANGED <<cpc, cur>>
    /\ UNCHANGED <<dbModels, dbUnits, snapModels, answers, consumed, cret>>
    /\ lastH' = NoHandled
    /\ WatchControllerFrame

\* ModelInfo returns for row cur, and the callback finishes.
CModelInfo(reply, dbok) ==
    /\ cpc = "modelinfo"
    /\ answers' = [answers EXCEPT ![cur] = reply]
    /\ LET r == checkDyingModelReply(dbModels, cur, reply, dbok)
       IN  /\ dbModels' = r.db
           /\ IF r.err = Nil
              THEN /\ modelIDs' = [modelIDs EXCEPT ![UUIDOf(cur)] = cur]
                   /\ checked' = checked \cup {cur}
                   /\ cpc' = "check"
                   /\ UNCHANGED cret
              ELSE /\ CReturn(r.err)
                   /\ UNCHANGED <<modelIDs, checked>>
    /\ cur' = 0
    /\ UNCHANGED <<dbUnits, snapModels, consumed>>
    /\ lastH' = NoHandled
    /\ WatchControllerFrame

\* ForEachControllerModel returns: with nil after the last row, or with an
\* error of the database.
CCheckReturns(ok) ==
    /\ cpc = "check"
    /\ ok => \A id \in RowIds : Present(snapModels, id) => id \in checked
    /\ IF ok THEN cpc' = "next" /\ UNCHANGED cret ELSE CReturn(ErrDatabase)
    /\ UNCHANGED <<dbModels, dbUnits, snapModels, modelIDs, cur, checked, answers, consumed>>
    /\ lastH' = NoHandled
    /\ WatchControllerFrame

\* AllModelWatcherNext returns.
CNext(ok) ==
    /\ cpc = "next"
    /\ IF ok
       THEN /\ cpc' = "deltas"
            /\ consumed' = TRUE
            /\ snapModels' = NoModels
            /\ checked' = {}
            /\ answers' = NoAnswers
            /\ UNCHANGED cret
       ELSE /\ CReturn(ErrAPI)
            /\ UNCHANGED <<consumed, snapModels, checked, answers>>
    /\ UNCHANGED <<dbModels, dbUnits, modelIDs, cur>>
    /\ lastH' = NoHandled
    /\ WatchControllerFrame

\* handleDelta for the next delta of the batch.
CHandleDelta(d, getok, dbok) ==
    /\ cpc = "deltas"
    /\ LET r == handleDelta(dbModels, dbUnits, modelIDs, d, getok, dbok)
       IN  /\ dbModels' = r.db
           /\ dbUnits' = r.units
           /\ modelIDs' = r.ids
           /\ lastH' = [set |-> TRUE, d |-> d, id |-> r.id, dbok |-> dbok,
                         wrote |-> (r.db # dbModels \/ r.units # dbUnits)]
           /\ IF r.err = Nil THEN UNCHANGED <<cpc, cret>> ELSE CReturn(r.err)
    /\ UNCHANGED <<snapModels, cur, checked, answers, consumed>>
    /\ WatchControllerFrame

\* The end of the batch: the UUIDs cached with ID 0 are forgotten.
CBatchEnd ==
    /\ cpc = "deltas"
    /\ modelIDs' = [u \in UUIDs |-> IF modelIDs[u] = 0 THEN NotCached ELSE modelIDs[u]]
    /\ cpc' = "next"
    /\ UNCHANGED <<dbModels, dbUnits, snapModels, cur, checked, answers, consumed, cret>>
    /\ lastH' = NoHandled
    /\ WatchControllerFrame

\* The next poll of Watch starts the controller's watcher again.
CRestart ==
    /\ cpc = "done"
    /\ cpc' = "start"
    /\ cret' = Nil
    /\ snapModels' = NoModels
    /\ modelIDs' = NoModelIDs
    /\ checked' = {}
    /\ answers' = NoAnswers
    /\ consumed' = FALSE
    /\ UNCHANGED <<dbModels, dbUnits, cur>>
    /\ lastH' = NoHandled
    /\ WatchControllerFrame

\* A user creates a model: its row appears.
EnvCreate(id) ==
    /\ dbModels[id].state = "absent"
    /\ dbModels' = [dbModels EXCEPT ![id].state = "present"]
    /\ UNCHANGED <<dbUnits, snapModels, modelIDs, cpc, cur, checked, answers, consumed, cret>>
    /\ lastH' = NoHandled
    /\ WatchControllerFrame

\* A user destroys a model: its row is marked dying.
EnvMarkDying(id) ==
    /\ Present(dbModels, id)
    /\ UUIDOf(id) # NoUUID
    /\ dbModels[id].life = "alive"
    /\ dbModels' = [dbModels EXCEPT ![id].life = "dying"]
    /\ UNCHANGED <<dbUnits, snapModels, modelIDs, cpc, cur, checked, answers, consumed, cret>>
    /\ lastH' = NoHandled
    /\ WatchControllerFrame

WatchControllerNext ==
    \/ \E ok \in BOOLEAN : CQuery(ok)
    \/ \E id \in RowIds : CCheck(id)
    \/ \E reply \in {"ok", "notfound", "error"}, dbok \in BOOLEAN : CModelInfo(reply, dbok)
    \/ \E ok \in BOOLEAN : CCheckReturns(ok)
    \/ \E ok \in BOOLEAN : CNext(ok)
    \/ \E d \in ModelDeltas, getok, dbok \in BOOLEAN : CHandleDelta(d, getok, dbok)
    \/ CBatchEnd
    \/ CRestart
    \/ \E id \in RowIds : EnvCreate(id)
    \/ \E id \in RowIds : EnvMarkDying(id)

(***************************************************************************)
(* SpecSummaries: one controller's summary watcher                         *)
(* (Watcher.watchAllModelSummaries) after its dial: the summaries it       *)
(* receives, one at a time, and what it publishes.  Users who create       *)
(* models are its environment.                                             *)
(***************************************************************************)
\* The admins of a summary, as user name and domain.
AdminUsers ==
    {[name |-> "alice", domain |-> ""],
     [name |-> "bob", domain |-> "external"],
     [name |-> "eve", domain |-> "external"]}

\* The longest list of admins in a summary.
MaxAdmins == 2

AdminLists == UNION {[1 .. n -> AdminUsers] : n \in 0 .. MaxAdmins}

Summaries == [uuid : UUIDs, admins : AdminLists]

\* names.UserTag.IsLocal
IsLocal(admin) == admin.domain \in {"", "local"}

\* The loop over summary.Admins that keeps the admins that are not local.
RECURSIVE sanitizeAdmins(_)
sanitizeAdmins(admins) ==
    IF admins = <<>> THEN <<>>
    ELSE IF IsLocal(Head(admins)) THEN sanitizeAdmins(Tail(admins))
    ELSE <<Head(admins)>> \o sanitizeAdmins(Tail(admins))

\* checkControllerModels without checks: the IDs of the rows that have a
\* UUID, by UUID.
checkControllerModels(db) ==
    [u \in UUIDs |-> IF GetModelByUUID(db, u) # 0 THEN GetModelByUUID(db, u) ELSE NotCached]

\* The body of watchAllModelSummaries's loop over the summaries of a batch,
\* for one summary: modelIDs afterwards and what is published.
sanitizeSummary(ids, db, summary, getok) ==
    LET f == modelIDf(ids, db, summary.uuid, getok)
    IN  [ids |-> f.ids,
         pubs |-> IF f.id = 0
                  THEN <<>>
                  ELSE <<[topic |-> summary.uuid,
                          summary |-> [summary EXCEPT !.admins = sanitizeAdmins(summary.admins)]]>>]

NoSummary ==
    [set |-> FALSE, summary |-> [uuid |-> 0, admins |-> <<>>], tracked |-> FALSE,
     getok |-> FALSE]

SummariesInit ==
    /\ sumModels = NoModels
    /\ sumIDs = NoModelIDs
    /\ sumpc = "start"
    /\ hub = <<>>
    /\ lastSum = NoSummary
    /\ sumAtNext = {}

\* The dial, WatchAllModelSummaries and checkControllerModels at the start.
UStart(ok) ==
    /\ sumpc = "start"
    /\ IF ok
       THEN sumpc' = "next" /\ sumIDs' = checkControllerModels(sumModels)
       ELSE sumpc' = "done" /\ UNCHANGED sumIDs
    /\ hub' = <<>>
    /\ lastSum' = NoSummary
    /\ UNCHANGED sumModels
    /\ UNCHANGED sumAtNext
    /\ SummariesFrame

\* The next summary of a batch that ModelSummaryWatcherNext returned.
USummary(summary, getok) ==
    /\ sumpc = "loop"
    /\ LET r == sanitizeSummary(sumIDs, sumModels, summary, getok)
       IN  /\ sumIDs' = r.ids
           /\ hub' = r.pubs
    /\ lastSum' = [set |-> TRUE, summary |-> summary,
                   tracked |-> GetModelByUUID(sumModels, summary.uuid) # 0,
                   getok |-> getok]
    /\ UNCHANGED <<sumModels, sumpc>>
    /\ UNCHANGED sumAtNext
    /\ SummariesFrame

\* ModelSummaryWatcherNext returns a batch of summaries (the batch before
\* it, if any, has been gone through).
UNext ==
    /\ sumpc \in {"next", "loop"}
    /\ sumpc' = "loop"
    /\ sumAtNext' = {u \in UUIDs : GetModelByUUID(sumModels, u) # 0}
    /\ hub' = <<>>
    /\ lastSum' = NoSummary
    /\ UNCHANGED <<sumModels, sumIDs>>
    /\ SummariesFrame

\* ModelSummaryWatcherNext fails or the context is done.
UStop ==
    /\ sumpc \in {"next", "loop"}
    /\ sumpc' = "done"
    /\ hub' = <<>>
    /\ lastSum' = NoSummary
    /\ UNCHANGED <<sumModels, sumIDs>>
    /\ UNCHANGED sumAtNext
    /\ SummariesFrame

\* The next poll of WatchAllModelSummaries starts the watcher again.
URestart ==
    /\ sumpc = "done"
    /\ sumpc' = "start"
    /\ sumIDs' = NoModelIDs
    /\ hub' = <<>>
    /\ lastSum' = NoSummary
    /\ UNCHANGED sumModels
    /\ UNCHANGED sumAtNext
    /\ SummariesFrame

\* A user creates a model: its row appears.
UEnvCreate(id) ==
    /\ sumModels[id].state = "absent"
    /\ sumModels' = [sumModels EXCEPT ![id].state = "present"]
    /\ hub' = <<>>
    /\ lastSum' = NoSummary
    /\ UNCHANGED <<sumIDs, sumpc>>
    /\ UNCHANGED sumAtNext
    /\ SummariesFrame

SummariesNext ==
    \/ \E ok \in BOOLEAN : UStart(ok)
    \/ UNext
    \/ \E summary \in Summaries, getok \in BOOLEAN : USummary(summary, getok)
    \/ UStop
    \/ URestart
    \/ \E id \in RowIds : UEnvCreate(id)

\* Every specification starts from the same state.
(***************************************************************************)
(* The gateway's model operations (controllerRoot, ModelManager facade)    *)
(* over the orchestrator (JEM).  A request is modelled with one entity:    *)
(* the entries of a request are handled independently of each other.       *)
(***************************************************************************)
ErrUnauthorized == "unauthorized"

ErrBadRequest == "bad request"

CodeNotFound == "not found"

\* bob owns the models (as in the tests), alice is another user.
GwUsers == {"bob", "alice"}

\* A tag that does not parse (names.ParseModelTag, conv.ParseUserTag).
BadTag == "not-a-tag"

ModelTags == ModelUUIDs \cup {BadTag}

UserTags == {"alice", BadTag}

\* The access levels a request names here, and those the controller knows.
AccessLevels == {"write", "superpowers"}

ValidAccess == {"read", "write", "admin"}

NoRow == [exists |-> FALSE, owner |-> "", read |-> {}]

NewRow == [exists |-> TRUE, owner |-> "bob", read |-> {}]

NoJemModels == [u \in ModelUUIDs |-> NoRow]

\* The store's access rule: the owner has every access, a user of the read
\* ACL has read access.
HasAccess(row, caller, access) ==
    \/ caller = row.owner
    \/ access = "read" /\ caller \in row.read

\* JEM.GetModel: the row must exist and the caller must have the access.
GetModel(rows, caller, access, uuid) ==
    IF ~rows[uuid].exists THEN ErrNotFound
    ELSE IF ~HasAccess(rows[uuid], caller, access) THEN ErrUnauthorized
    ELSE Nil

\* What the controller answers to a grant or revoke: apiErr is the failure of
\* the call itself (Nil when the call gets through).
ControllerModifyAccess(ctl, uuid, access, apiErr) ==
    IF apiErr # Nil THEN apiErr
    ELSE IF uuid \notin ctl \/ access \notin ValidAccess THEN ErrAPI
    ELSE Nil

\* JEM.GrantModel: the controller first, the local ACL only on success.
GrantModel(rows, ctl, caller, uuid, user, access, apiErr) ==
    LET e == GetModel(rows, caller, "admin", uuid)
        c == ControllerModifyAccess(ctl, uuid, access, apiErr)
    IN  IF e # Nil THEN [rows |-> rows, err |-> e]
        ELSE IF c # Nil THEN [rows |-> rows, err |-> c]
        ELSE [rows |-> [rows EXCEPT ![uuid].read = @ \cup {user}], err |-> Nil]

\* JEM.RevokeModel: the user is removed from the local ACL, and the
\* controller's answer is the result.
RevokeModel(rows, ctl, caller, uuid, user, access, apiErr) ==
    LET e == GetModel(rows, caller, "admin", uuid)
        c == ControllerModifyAccess(ctl, uuid, access, apiErr)
    IN  IF e # Nil THEN [rows |-> rows, err |-> e]
        ELSE [rows |-> [rows EXCEPT ![uuid].read = @ \ {user}], err |-> c]

\* DestroyModel that gives up when the controller does not have the model.
DestroyModel_NeedsController(rows, ctl, caller, uuid, apiErr) ==
    LET e == GetModel(rows, caller, "admin", uuid)
    IN  IF e # Nil THEN [rows |-> rows, ctl |-> ctl, err |-> e]
        ELSE IF uuid \notin ctl \/ apiErr # Nil
        THEN [rows |-> rows, ctl |-> ctl, err |-> IF apiErr # Nil THEN apiErr ELSE ErrAPI]
        ELSE [rows |-> [rows EXCEPT ![uuid] = NoRow], ctl |-> ctl \ {uuid}, err |-> Nil]

\* JEM.DestroyModel: a model without a local row is not found; a model the
\* controller no longer has is still removed locally.
DestroyModel(rows, ctl, caller, uuid, apiErr) ==
    LET e == GetModel(rows, caller, "admin", uuid)
    IN  IF e # Nil THEN [rows |-> rows, ctl |-> ctl, err |-> e]
        ELSE IF uuid \in ctl /\ apiErr # Nil
        THEN [rows |-> rows, ctl |-> ctl, err |-> apiErr]
        ELSE [rows |-> [rows EXCEPT ![uuid] = NoRow], ctl |-> ctl \ {uuid}, err |-> Nil]

\* JEM.GetModelInfo: read access to the row, then the controller's answer.
GetModelInfo(rows, caller, uuid, apiErr) ==
    LET e == GetModel(rows, caller, "read", uuid)
    IN  IF e # Nil THEN e ELSE apiErr

\* controllerRoot.modelWithConnection: parse the tag, get the model with the
\* access, open the connection, run f (ferr is f's result).
modelWithConnection(rows, caller, tag, access, openErr, ferr) ==
    IF tag = BadTag THEN ErrBadRequest
    ELSE IF GetModel(rows, caller, access, tag) # Nil
    THEN GetModel(rows, caller, access, tag)
    ELSE IF openErr # Nil THEN Mask(openErr, FALSE)
    ELSE ferr

NoError == [Message |-> Nil, Code |-> ""]

mapError(err) ==
    IF err = Nil THEN NoError
    ELSE [Message |-> err, Code |-> IF err = ErrNotFound THEN CodeNotFound ELSE ""]

DumpModels(rows, caller, tag, openErr, apiErr) ==
    LET err == modelWithConnection(rows, caller, tag, "admin", openErr, Mask(apiErr, TRUE))
    IN  mapError(IF err = ErrNotFound THEN ErrUnauthorized ELSE err)

DumpModelsV3(rows, caller, tag, openErr, apiErr) ==
    LET err == modelWithConnection(rows, caller, tag, "admin", openErr, Mask(apiErr, TRUE))
    IN  mapError(IF err = ErrNotFound THEN ErrUnauthorized ELSE err)

DumpModelsDB(rows, caller, tag, openErr, apiErr) ==
    LET err == modelWithConnection(rows, caller, tag, "admin", openErr, Mask(apiErr, TRUE))
    IN  mapError(IF err = ErrNotFound THEN ErrUnauthorized ELSE err)

ModelInfo(rows, caller, tag, apiErr) ==
    IF tag = BadTag THEN mapError(ErrBadRequest)
    ELSE LET err == GetModelInfo(rows, caller, tag, apiErr)
         IN  mapError(IF err = ErrNotFound THEN ErrUnauthorized ELSE err)

\* changeModelCredential: credErr is GetCredential's result, updErr
\* UpdateModelCredential's; credok says whether the credential tag parses.
changeModelCredential(rows, caller, tag, openErr, credok, credErr, updErr) ==
    IF tag = BadTag THEN ErrBadRequest
    ELSE IF GetModel(rows, caller, "admin", tag) # Nil
    THEN Mask(GetModel(rows, caller, "admin", tag), TRUE)
    ELSE IF openErr # Nil THEN Mask(openErr, FALSE)
    ELSE IF ~credok THEN ErrBadRequest
    ELSE IF credErr # Nil THEN Mask(credErr, credErr \in {ErrNotFound, ErrUnauthorized})
    ELSE Mask(updErr, FALSE)

ChangeModelCredential(rows, caller, tag, openErr, credok, credErr, updErr) ==
    mapError(changeModelCredential(rows, caller, tag, openErr, credok, credErr, updErr))

Actions == {"grant", "revoke", "bogus"}

\* ModifyModelAccess with the two actions taken for each other.
ModifyModelAccess_Swapped(rows, ctl, caller, tag, user, action, access, apiErr) ==
    IF tag = BadTag \/ user = BadTag
    THEN [rows |-> rows, err |-> ErrBadRequest, error |-> mapError(ErrBadRequest)]
    ELSE LET r == CASE action = "grant" -> RevokeModel(rows, ctl, caller, tag, user, access, apiErr)
                    [] action = "revoke" -> GrantModel(rows, ctl, caller, tag, user, access, apiErr)
                    [] OTHER -> [rows |-> rows, err |-> ErrBadRequest]
         IN  [rows |-> r.rows, err |-> r.err,
              error |-> mapError(IF r.err = ErrNotFound THEN ErrUnauthorized ELSE r.err)]

\* ModifyModelAccess that revokes only what the controller could revoke.
ModifyModelAccess_RevokeChecked(rows, ctl, caller, tag, user, action, access, apiErr) ==
    IF tag = BadTag \/ user = BadTag
    THEN [rows |-> rows, err |-> ErrBadRequest, error |-> mapError(ErrBadRequest)]
    ELSE LET r == CASE action = "grant" -> GrantModel(rows, ctl, caller, tag, user, access, apiErr)
                    [] action = "revoke" ->
                        IF ControllerModifyAccess(ctl, tag, access, apiErr) = Nil
                        THEN RevokeModel(rows, ctl, caller, tag, user, access, apiErr)
                        ELSE [rows |-> rows,
                              err |-> ControllerModifyAccess(ctl, tag, access, apiErr)]
                    [] OTHER -> [rows |-> rows, err |-> ErrBadRequest]
         IN  [rows |-> r.rows, err |-> r.err,
              error |-> mapError(IF r.err = ErrNotFound THEN ErrUnauthorized ELSE r.err)]

\* ModifyModelAccess: the new rows, the error of the call on the orchestrator
\* (err) and the entry's error.
ModifyModelAccess(rows, ctl, caller, tag, user, action, access, apiErr) ==
    IF tag = BadTag \/ user = BadTag
    THEN [rows |-> rows, err |-> ErrBadRequest, error |-> mapError(ErrBadRequest)]
    ELSE LET r == CASE action = "grant" -> GrantModel(rows, ctl, caller, tag, user, access, apiErr)
                    [] action = "revoke" -> RevokeModel(rows, ctl, caller, tag, user, access, apiErr)
                    [] OTHER -> [rows |-> rows, err |-> ErrBadRequest]
         IN  [rows |-> r.rows, err |-> r.err,
              error |-> mapError(IF r.err = ErrNotFound THEN ErrUnauthorized ELSE r.err)]

\* DestroyModelsV4 that reports every error of DestroyModel.
DestroyModelsV4_ReportAll(rows, ctl, caller, tag, apiErr) ==
    IF tag = BadTag
    THEN [rows |-> rows, ctl |-> ctl, err |-> ErrBadRequest, error |-> mapError(ErrBadRequest)]
    ELSE LET r == DestroyModel(rows, ctl, caller, tag, apiErr)
         IN  [rows |-> r.rows, ctl |-> r.ctl, err |-> r.err, error |-> mapError(r.err)]

\* DestroyModelsV4: a NotFound from DestroyModel is not an error.
DestroyModelsV4(rows, ctl, caller, tag, apiErr) ==
    IF tag = BadTag
    THEN [rows |-> rows, ctl |-> ctl, err |-> ErrBadRequest, error |-> mapError(ErrBadRequest)]
    ELSE LET r == DestroyModel(rows, ctl, caller, tag, apiErr)
         IN  [rows |-> r.rows, ctl |-> r.ctl, err |-> r.err,
              error |-> IF r.err # Nil /\ r.err # ErrNotFound THEN mapError(r.err) ELSE NoError]

\* DestroyModels (facade versions below 4) asks for the storage to be
\* destroyed and is DestroyModelsV4 otherwise.
DestroyModels(rows, ctl, caller, tag, apiErr) ==
    DestroyModelsV4(rows, ctl, caller, tag, apiErr)

APIErrors == {Nil, ErrAPI}

\* How opening the connection and the call on it end: <<openErr, apiErr>>.
ConnOutcomes == {<<Nil, Nil>>, <<ErrAPIConnection, Nil>>, <<Nil, ErrAPI>>}

\* How changeModelCredential's calls end: <<openErr, credok, credErr, updErr>>.
CredOutcomes ==
    {<<Nil, TRUE, Nil, Nil>>, <<ErrAPIConnection, TRUE, Nil, Nil>>,
     <<Nil, FALSE, Nil, Nil>>, <<Nil, TRUE, ErrNotFound, Nil>>,
     <<Nil, TRUE, ErrUnauthorized, Nil>>, <<Nil, TRUE, Nil, ErrAPI>>}

NoRequest ==
    [op |-> "", caller |-> "", tag |-> "", row |-> NoRow, had |-> FALSE,
     user |-> "", action |-> "", access |-> "", apiErr |-> Nil, jemErr |-> Nil,
     error |-> NoError]

\* The record of a request on a model: the row and the controller's model
\* are those before the request.
Request(op, caller, tag, apiErr, error) ==
    [NoRequest EXCEPT !.op = op, !.caller = caller, !.tag = tag,
                      !.row = IF tag = BadTag THEN NoRow ELSE jemModels[tag],
                      !.had = tag \in ctlModels,
                      !.apiErr = apiErr, !.error = error]

GatewayInit ==
    /\ jemModels = NoJemModels
    /\ ctlModels = {}
    /\ gwLast = NoRequest

\* CreateModel (or the tests' bootstrapModel and AddModel): a row and, unless
\* the controller has lost it again, a model on the controller.
GwAddModel(uuid, onController) ==
    /\ ~jemModels[uuid].exists
    /\ jemModels' = [jemModels EXCEPT ![uuid] = NewRow]
    /\ ctlModels' = IF onController THEN ctlModels \cup {uuid} ELSE ctlModels \ {uuid}
    /\ gwLast' = NoRequest
    /\ GatewayFrame

GwModelInfo(caller, tag, apiErr) ==
    /\ gwLast' = Request("ModelInfo", caller, tag, apiErr,
                         ModelInfo(jemModels, caller, tag, apiErr))
    /\ UNCHANGED <<jemModels, ctlModels>>
    /\ GatewayFrame

GwDumpModels(caller, tag, openErr, apiErr) ==
    /\ gwLast' = Request("DumpModels", caller, tag, apiErr,
                         DumpModels(jemModels, caller, tag, openErr, apiErr))
    /\ UNCHANGED <<jemModels, ctlModels>>
    /\ GatewayFrame

GwDumpModelsV3(caller, tag, openErr, apiErr) ==
    /\ gwLast' = Request("DumpModelsV3", caller, tag, apiErr,
                         DumpModelsV3(jemModels, caller, tag, openErr, apiErr))
    /\ UNCHANGED <<jemModels, ctlModels>>
    /\ GatewayFrame

GwDumpModelsDB(caller, tag, openErr, apiErr) ==
    /\ gwLast' = Request("DumpModelsDB", caller, tag, apiErr,
                         DumpModelsDB(jemModels, caller, tag, openErr, apiErr))
    /\ UNCHANGED <<jemModels, ctlModels>>
    /\ GatewayFrame

GwChangeModelCredential(caller, tag, openErr, credok, credErr, updErr) ==
    /\ gwLast' = Request("ChangeModelCredential", caller, tag, updErr,
                         ChangeModelCredential(jemModels, caller, tag, openErr,
                                               credok, credErr, updErr))
    /\ UNCHANGED <<jemModels, ctlModels>>
    /\ GatewayFrame

GwModifyModelAccess(caller, tag, user, action, access, apiErr) ==
    LET r == ModifyModelAccess(jemModels, ctlModels, caller, tag, user, action, access, apiErr)
    IN  /\ jemModels' = r.rows
        /\ gwLast' = [Request("ModifyModelAccess", caller, tag, apiErr, r.error)
                        EXCEPT !.user = user, !.action = action, !.access = access,
                               !.jemErr = r.err]
        /\ UNCHANGED ctlModels
        /\ GatewayFrame

GwDestroyModels(caller, tag, apiErr) ==
    LET r == DestroyModels(jemModels, ctlModels, caller, tag, apiErr)
    IN  /\ jemModels' = r.rows
        /\ ctlModels' = r.ctl
        /\ gwLast' = [Request("DestroyModels", caller, tag, apiErr, r.error)
                        EXCEPT !.jemErr = r.err]
        /\ GatewayFrame

GwDestroyModelsV4(caller, tag, apiErr) ==
    LET r == DestroyModelsV4(jemModels, ctlModels, caller, tag, apiErr)
    IN  /\ jemModels' = r.rows
        /\ ctlModels' = r.ctl
        /\ gwLast' = [Request("DestroyModelsV4", caller, tag, apiErr, r.error)
                        EXCEPT !.jemErr = r.err]
        /\ GatewayFrame

GatewayNext ==
    \/ \E uuid \in ModelUUIDs, onController \in BOOLEAN : GwAddModel(uuid, onController)
    \/ \E caller \in GwUsers, tag \in ModelTags, apiErr \in APIErrors :
        GwModelInfo(caller, tag, apiErr)
    \/ \E caller \in GwUsers, tag \in ModelTags, o \in ConnOutcomes :
        GwDumpModels(caller, tag, o[1], o[2])
    \/ \E caller \in GwUsers, tag \in ModelTags, o \in ConnOutcomes :
        GwDumpModelsV3(caller, tag, o[1], o[2])
    \/ \E caller \in GwUsers, tag \in ModelTags, o \in ConnOutcomes :
        GwDumpModelsDB(caller, tag, o[1], o[2])
    \/ \E caller \in GwUsers, tag \in ModelTags, o \in CredOutcomes :
        GwChangeModelCredential(caller, tag, o[1], o[2], o[3], o[4])
    \/ \E caller \in GwUsers, tag \in ModelTags, user \in UserTags, action \in Actions,
          access \in AccessLevels, apiErr \in APIErrors :
        GwModifyModelAccess(caller, tag, user, action, access, apiErr)
    \/ \E caller \in GwUsers, tag \in ModelTags, apiErr \in APIErrors :
        GwDestroyModels(caller, tag, apiErr)
    \/ \E caller \in GwUsers, tag \in ModelTags, apiErr \in APIErrors :
        GwDestroyModelsV4(caller, tag, apiErr)

(***************************************************************************)
(* A gateway connection: wsHandler.handle with its heartbeat monitor, the  *)
(* Pinger facade and admin.Login.  Time advances in ticks.                 *)
(***************************************************************************)
websocketPingTimeout == 2

MaxMacaroons == 2

ConnKinds == {"root", "controller-model", "model", "unknown"}

\* Bakery.CheckAny: the macaroons verify, they are missing or invalid
\* (a *bakery.VerificationError), or the check fails otherwise.
CheckResults == {"verified", "verification error", "other error"}

CodeRedirect == "redirection required"

VerificationFailure == "verification failed"

NoLoginResult == [err |-> Nil, discharge |-> 0, reason |-> "", user |-> ""]

\* Login that takes the username before it has checked the macaroons.
Login_SetsUserFirst(kind, username, n, check, attrUser, newMacOk, canRead) ==
    IF kind = "model"
    THEN [username |-> username, minted |-> n,
          res |-> [NoLoginResult EXCEPT !.err = CodeRedirect]]
    ELSE IF check = "verification error"
    THEN IF newMacOk
         THEN [username |-> attrUser, minted |-> n + 1,
               res |-> [NoLoginResult EXCEPT !.discharge = n + 1, !.reason = VerificationFailure]]
         ELSE [username |-> attrUser, minted |-> n,
               res |-> [NoLoginResult EXCEPT !.err = Notef(ErrOther)]]
    ELSE IF check = "other error"
    THEN [username |-> attrUser, minted |-> n, res |-> [NoLoginResult EXCEPT !.err = Mask(ErrOther, FALSE)]]
    ELSE IF kind = "controller-model" /\ ~canRead
    THEN [username |-> attrUser, minted |-> n,
          res |-> [NoLoginResult EXCEPT !.err = Mask(ErrUnauthorized, TRUE)]]
    ELSE [username |-> attrUser, minted |-> n, res |-> [NoLoginResult EXCEPT !.user = attrUser]]

\* admin.Login with the username and the number of issued macaroons; check is
\* CheckAny's result, attrUser the username attribute, newMacOk whether
\* NewMacaroon succeeds, canRead whether CheckCanRead lets the user in.
Login(kind, username, n, check, attrUser, newMacOk, canRead) ==
    IF kind = "model"
    THEN [username |-> username, minted |-> n,
          res |-> [NoLoginResult EXCEPT !.err = CodeRedirect]]
    ELSE IF check = "verification error"
    THEN IF newMacOk
         THEN [username |-> username, minted |-> n + 1,
               res |-> [NoLoginResult EXCEPT !.discharge = n + 1, !.reason = VerificationFailure]]
         ELSE [username |-> username, minted |-> n,
               res |-> [NoLoginResult EXCEPT !.err = Notef(ErrOther)]]
    ELSE IF check = "other error"
    THEN [username |-> username, minted |-> n, res |-> [NoLoginResult EXCEPT !.err = Mask(ErrOther, FALSE)]]
    ELSE IF kind = "controller-model" /\ ~canRead
    THEN [username |-> attrUser, minted |-> n,
          res |-> [NoLoginResult EXCEPT !.err = Mask(ErrUnauthorized, TRUE)]]
    ELSE [username |-> attrUser, minted |-> n, res |-> [NoLoginResult EXCEPT !.user = attrUser]]

\* Heartbeat that leaves the timer running.
Heartbeat_NoReset(t) == t

\* timerHeartMonitor.Heartbeat: Timer.Reset(duration) arms the timer for the
\* full duration; a value already on the channel stays there.

Heartbeat(t) == websocketPingTimeout

\* The facade versions this API supports.
facades == {<<"Admin", 3>>, <<"Cloud", 1>>, <<"ModelManager", 2>>, <<"Pinger", 1>>}

\* The root names a client may ask for ("Client" is in no version of the
\* table) and the versions it may ask for.
RootNames == {"Admin", "Cloud", "ModelManager", "Pinger", "Client"}

MaxFacadeVersion == 4

FacadeVersionNumbers == 0 .. MaxFacadeVersion

CallNotImplemented == "not implemented"

CodeNotSupported == "not supported"

\* wsHandler.FindMethod: the error it returns, or "method" when it returns
\* a method.  kind "unknown" is a model UUID that resolveUUID does not
\* find; known tells whether the facade has a method of the name asked for.
FindMethod(kind, username, rootName, version, known) ==
    IF kind = "unknown" THEN ErrNotFound
    ELSE IF username = "" /\ rootName # "Admin" THEN CallNotImplemented
    ELSE IF rootName = "Admin" /\ version < 3 THEN CodeNotSupported
    ELSE IF <<rootName, version>> \in facades
    THEN IF known THEN "method" ELSE CallNotImplemented
    ELSE CallNotImplemented

\* wsHandler.FindMethod finds Pinger.Ping: the UUID resolves and the
\* connection has logged in.
CanCall(kind, username) == FindMethod(kind, username, "Pinger", 1, TRUE) = "method"

NoLogin ==
    [called |-> FALSE, check |-> "", attrUser |-> "", newMacOk |-> FALSE,
     userBefore |-> "", mintedBefore |-> 0, res |-> NoLoginResult]

ConnInit ==
    /\ wsKind = "root"
    /\ wsUsername = ""
    /\ wsLogin = NoLogin
    /\ wsMinted = 0
    /\ hbTimer = 0
    /\ timerC = FALSE
    /\ sincePing = 0
    /\ missed = FALSE
    /\ rpcDead = FALSE
    /\ hpc = "idle"
    /\ closedBy = ""

\* handle up to its select: the heartbeat monitor is made, the connection
\* started.
WHandle(kind) ==
    /\ hpc = "idle"
    /\ wsKind' = kind
    /\ hbTimer' = websocketPingTimeout
    /\ hpc' = "select"
    /\ UNCHANGED <<wsUsername, wsLogin, wsMinted, timerC, sincePing, missed, rpcDead, closedBy>>
    /\ ConnFrame

\* One tick of time: an armed timer that reaches zero fires.
WTick ==
    /\ hpc = "select"
    /\ sincePing' = IF sincePing < websocketPingTimeout THEN sincePing + 1 ELSE sincePing
    /\ missed' = (missed \/ sincePing + 1 >= websocketPingTimeout)
    /\ hbTimer' = IF hbTimer > 0 THEN hbTimer - 1 ELSE 0
    /\ timerC' = (timerC \/ hbTimer = 1)
    /\ UNCHANGED <<wsKind, wsUsername, wsLogin, wsMinted, rpcDead, hpc, closedBy>>
    /\ ConnFrame

\* Pinger.Ping on a connection that may call it.
WPing ==
    /\ hpc = "select"
    /\ ~rpcDead
    /\ CanCall(wsKind, wsUsername)
    /\ hbTimer' = Heartbeat(hbTimer)
    /\ sincePing' = 0
    /\ wsLogin' = NoLogin
    /\ UNCHANGED <<wsKind, wsUsername, wsMinted, timerC, missed, rpcDead, hpc, closedBy>>
    /\ ConnFrame

\* Admin.Login (version 3) on a connection whose UUID resolves.
WLogin(check, attrUser, newMacOk, canRead) ==
    /\ hpc = "select"
    /\ ~rpcDead
    /\ wsKind # "unknown"
    /\ newMacOk => wsMinted < MaxMacaroons
    /\ LET r == Login(wsKind, wsUsername, wsMinted, check, attrUser, newMacOk, canRead)
       IN  /\ wsUsername' = r.username
           /\ wsMinted' = r.minted
           /\ wsLogin' = [called |-> TRUE, check |-> check, attrUser |-> attrUser,
                          newMacOk |-> newMacOk, userBefore |-> wsUsername,
                          mintedBefore |-> wsMinted, res |-> r.res]
    /\ UNCHANGED <<wsKind, hbTimer, timerC, sincePing, missed, rpcDead, hpc, closedBy>>
    /\ ConnFrame

\* The client goes away: conn.Dead() is closed.
WConnDies ==
    /\ hpc = "select"
    /\ ~rpcDead
    /\ rpcDead' = TRUE
    /\ UNCHANGED <<wsKind, wsUsername, wsLogin, wsMinted, hbTimer, timerC, sincePing, missed,
                   hpc, closedBy>>
    /\ ConnFrame

\* handle's select takes heartMonitor.Dead(), then conn.Close().
WPingTimeout ==
    /\ hpc = "select"
    /\ timerC
    /\ timerC' = FALSE
    /\ hpc' = "closed"
    /\ closedBy' = "ping timeout"
    /\ UNCHANGED <<wsKind, wsUsername, wsLogin, wsMinted, hbTimer, sincePing, missed, rpcDead>>
    /\ ConnFrame

\* handle's select takes conn.Dead(): heartMonitor.Stop(), then conn.Close().
WConnDead ==
    /\ hpc = "select"
    /\ rpcDead
    /\ hbTimer' = 0
    /\ hpc' = "closed"
    /\ closedBy' = "conn dead"
    /\ UNCHANGED <<wsKind, wsUsername, wsLogin, wsMinted, timerC, sincePing, missed, rpcDead>>
    /\ ConnFrame

ConnNext ==
    \/ \E kind \in ConnKinds : WHandle(kind)
    \/ WTick
    \/ WPing
    \/ \E check \in CheckResults, attrUser \in GwUsers, newMacOk \in BOOLEAN,
          canRead \in BOOLEAN :
        WLogin(check, attrUser, newMacOk, canRead)
    \/ WConnDies
    \/ WPingTimeout
    \/ WConnDead

(***************************************************************************)
(* Controller selection (JEM.DoControllers, selectController) over the     *)
(* controllers of TestSelectController, listed in path order, which is the *)
(* order the store returns them in.                                        *)
(***************************************************************************)
SortedControllers ==
    << [path |-> "alice/aws-eu-west-1", owner |-> "alice", cloud |-> "aws",
        region |-> "eu-west-1", read |-> {"bob"}],
       [path |-> "alice/aws-us-east-1", owner |-> "alice", cloud |-> "aws",
        region |-> "us-east-1", read |-> {"bob-group"}],
       [path |-> "alice/aws-us-east-2", owner |-> "alice", cloud |-> "aws",
        region |-> "us-east-1", read |-> {}],
       [path |-> "alice/gce-us-east-1", owner |-> "alice", cloud |-> "gce",
        region |-> "us-east-1", read |-> {}],
       [path |-> "bob/aws-eu-west-1", owner |-> "bob", cloud |-> "aws",
        region |-> "eu-west-1", read |-> {}],
       [path |-> "bob/aws-us-east-1", owner |-> "bob", cloud |-> "aws",
        region |-> "us-east-1", read |-> {}],
       [path |-> "bob/controller", owner |-> "bob", cloud |-> "dummy",
        region |-> "dummy-region", read |-> {"everyone"}],
       [path |-> "bob/gce-us-east-1", owner |-> "bob", cloud |-> "gce",
        region |-> "us-east-1", read |-> {}] >>

ControllerPaths == {SortedControllers[i].path : i \in DOMAIN SortedControllers}

\* The controllers TestSelectController adds.
SelectPaths == ControllerPaths \ {"bob/controller"}

\* The callers: a user and the groups of the user.
Identities ==
    {[user |-> "bob", groups |-> {"bob-group"}], [user |-> "alice", groups |-> {}],
     [user |-> "charlie", groups |-> {}]}

SelectClouds == {"", "aws", "gce"}

SelectRegions == {"", "us-east-1", "us-east-2"}

\* CheckCanRead: the owner, a user or group of the read ACL, or everyone.
CanRead(c, id) ==
    \/ c.owner = id.user
    \/ id.user \in c.read
    \/ id.groups \cap c.read # {}
    \/ "everyone" \in c.read

\* The location of the controller matches the cloud and region asked for.
MatchesLocation(c, cloud, region) ==
    /\ cloud = "" \/ c.cloud = cloud
    /\ region = "" \/ c.region = region

RECURSIVE DoControllersFrom(_, _, _, _, _)
\* DoControllers without the ACL check.
DoControllersFrom_NoACL(i, present, id, cloud, region) ==
    IF i > Len(SortedControllers) THEN <<>>
    ELSE IF /\ SortedControllers[i].path \in present
            /\ MatchesLocation(SortedControllers[i], cloud, region)
         THEN <<SortedControllers[i]>> \o DoControllersFrom(i + 1, present, id, cloud, region)
         ELSE DoControllersFrom(i + 1, present, id, cloud, region)

\* JEM.DoControllers from the i-th controller on: the controllers of the
\* store that match and that the caller may read, in path order.
DoControllersFrom(i, present, id, cloud, region) ==
    IF i > Len(SortedControllers) THEN <<>>
    ELSE IF /\ SortedControllers[i].path \in present
            /\ MatchesLocation(SortedControllers[i], cloud, region)
            /\ CanRead(SortedControllers[i], id)
         THEN <<SortedControllers[i]>> \o DoControllersFrom(i + 1, present, id, cloud, region)
         ELSE DoControllersFrom(i + 1, present, id, cloud, region)

DoControllers(present, id, cloud, region) == DoControllersFrom(1, present, id, cloud, region)

\* The values randIntn(n) may return.
Intn(n) == 0 .. (n - 1)

\* selectController: the controller at index randIntn(n) of the n candidates
\* (rnd is what randIntn returns), ErrNotFound without candidates.
SelectController(present, id, cloud, region, rnd) ==
    LET cs == DoControllers(present, id, cloud, region)
    IN  IF Len(cs) = 0 THEN [path |-> "", err |-> ErrNotFound]
        ELSE [path |-> cs[rnd + 1].path, err |-> Nil]

NoSelect ==
    [called |-> FALSE, id |-> [user |-> "", groups |-> {}], cloud |-> "", region |-> "",
     rnd |-> 0, path |-> "", err |-> Nil]

SelectInit ==
    /\ selCtls = {}
    /\ lastSel = NoSelect

\* DB.AddController of one of the test's controllers.
SelAddController(path) ==
    /\ path \notin selCtls
    /\ selCtls' = selCtls \cup {path}
    /\ lastSel' = NoSelect
    /\ UNCHANGED <<crCreds, crModels, crRemote, lastCreate>>
    /\ SelectFrame

\* The controller is removed from the store.
SelDeleteController(path) ==
    /\ path \in selCtls
    /\ selCtls' = selCtls \ {path}
    /\ lastSel' = NoSelect
    /\ UNCHANGED <<crCreds, crModels, crRemote, lastCreate>>
    /\ SelectFrame

SelSelectController(id, cloud, region, rnd) ==
    LET r == SelectController(selCtls, id, cloud, region, rnd)
    IN  /\ rnd = 0 \/ rnd \in Intn(Len(DoControllers(selCtls, id, cloud, region)))
        /\ lastSel' = [called |-> TRUE, id |-> id, cloud |-> cloud, region |-> region,
                        rnd |-> rnd, path |-> r.path, err |-> r.err]
        /\ UNCHANGED <<selCtls, crCreds, crModels, crRemote, lastCreate>>
        /\ SelectFrame

SelectNext ==
    \/ \E path \in SelectPaths : SelAddController(path)
    \/ \E path \in SelectPaths : SelDeleteController(path)
    \/ \E id \in Identities, cloud \in SelectClouds, region \in SelectRegions,
          rnd \in 0 .. Len(SortedControllers) :
        SelSelectController(id, cloud, region, rnd)

(***************************************************************************)
(* JEM.CreateModel on the cloud "dummy", with the credentials and the      *)
(* controller of TestCreateModel.                                          *)
(***************************************************************************)
ErrAmbiguousChoice == "ambiguous choice"

ErrAlreadyExists == "already exists"

CreateUsers == {"bob", "alice"}

CredentialNames == {"cred1", "cred2"}

\* The credentials the store may hold: two for bob, one for alice.
Credentials == {<<"bob", "cred1">>, <<"bob", "cred2">>, <<"alice", "cred1">>}

ModelPaths == [user : CreateUsers, name : {"test"}]

NoModelRow == [exists |-> FALSE, credential |-> "", controller |-> "", creator |-> ""]

UserCredentials(creds, user) == {c \in creds : c[1] = user}

\* selectCredential that takes one of several credentials.
selectCredential_Any(creds, user) ==
    IF UserCredentials(creds, user) = {} THEN [name |-> "", err |-> Nil]
    ELSE [name |-> (CHOOSE c \in UserCredentials(creds, user) : TRUE)[2], err |-> Nil]

\* The credential of a model created without one: the user's only
\* credential for the cloud, none when the user has none.
selectCredential(creds, user) ==
    IF UserCredentials(creds, user) = {} THEN [name |-> "", err |-> Nil]
    ELSE IF Cardinality(UserCredentials(creds, user)) > 1
    THEN [name |-> "", err |-> ErrAmbiguousChoice]
    ELSE [name |-> (CHOOSE c \in UserCredentials(creds, user) : TRUE)[2], err |-> Nil]

\* The credential CreateModel uses: the one named, which must exist, or the
\* selected one.
resolveCredential(creds, user, credential) ==
    IF credential = "" THEN selectCredential(creds, user)
    ELSE IF <<user, credential>> \notin creds THEN [name |-> "", err |-> ErrNotFound]
    ELSE [name |-> credential, err |-> Nil]

\* The controller CreateModel uses: the one named, or the selected one.
resolveController(present, id, p, rnd) ==
    IF p.controllerPath = "" THEN SelectController(present, id, p.cloud, p.region, rnd)
    ELSE IF p.controllerPath \notin present THEN [path |-> "", err |-> ErrNotFound]
    ELSE [path |-> p.controllerPath, err |-> Nil]

\* JEM.CreateModel: p holds path, controllerPath, credential, cloud and
\* region; apiErr is the result of creating the model on the controller.
CreateModel(models, remote, creds, present, id, p, rnd, apiErr) ==
    LET cred == resolveCredential(creds, p.path.user, p.credential)
        ctl == resolveController(present, id, p, rnd)
        fail(e) == [models |-> models, remote |-> remote, err |-> e]
    IN  IF id.user # p.path.user THEN fail(ErrUnauthorized)
        ELSE IF cred.err # Nil THEN fail(cred.err)
        ELSE IF ctl.err # Nil THEN fail(ctl.err)
        ELSE IF models[p.path].exists THEN fail(ErrAlreadyExists)
        ELSE IF apiErr # Nil THEN fail(apiErr)
        ELSE [models |-> [models EXCEPT ![p.path] =
                            [exists |-> TRUE, credential |-> cred.name,
                             controller |-> ctl.path, creator |-> id.user]],
              remote |-> remote \cup {p.path},
              err |-> Nil]

CreateModelParams ==
    [path : ModelPaths, controllerPath : {"", "bob/controller"},
     credential : {""} \cup CredentialNames, cloud : {"dummy"},
     region : {"", "not-a-region"}]

NoCreate ==
    [called |-> FALSE, user |-> "",
     p |-> [path |-> [user |-> "", name |-> ""], controllerPath |-> "", credential |-> "",
            cloud |-> "", region |-> ""],
     models |-> [m \in ModelPaths |-> NoModelRow], remote |-> {}, apiErr |-> Nil,
     err |-> Nil]

CreateInit ==
    /\ crCreds = {}
    /\ crModels = [m \in ModelPaths |-> NoModelRow]
    /\ crRemote = {}
    /\ lastCreate = NoCreate

\* The test's addController: bob/controller, readable by everyone.
CrAddController ==
    /\ "bob/controller" \notin selCtls
    /\ selCtls' = selCtls \cup {"bob/controller"}
    /\ lastCreate' = NoCreate
    /\ UNCHANGED <<lastSel, crCreds, crModels, crRemote>>
    /\ SelectFrame

\* UpdateCredential stores a credential.
CrUpdateCredential(c) ==
    /\ c \notin crCreds
    /\ crCreds' = crCreds \cup {c}
    /\ lastCreate' = NoCreate
    /\ UNCHANGED <<selCtls, lastSel, crModels, crRemote>>
    /\ SelectFrame

CrCreateModel(id, p, apiErr) ==
    LET r == CreateModel(crModels, crRemote, crCreds, selCtls, id, p, 0, apiErr)
    IN  /\ crModels' = r.models
        /\ crRemote' = r.remote
        /\ lastCreate' = [called |-> TRUE, user |-> id.user, p |-> p, models |-> crModels,
                          remote |-> crRemote, apiErr |-> apiErr, err |-> r.err]
        /\ UNCHANGED <<selCtls, lastSel, crCreds>>
        /\ SelectFrame

CreateNext ==
    \/ CrAddController
    \/ \E c \in Credentials : CrUpdateCredential(c)
    \/ \E id \in {i \in Identities : i.user \in CreateUsers}, p \in CreateModelParams,
          apiErr \in APIErrors :
        CrCreateModel(id, p, apiErr)

(***************************************************************************)
(* SpecPool: the pool of store sessions behind Pool.JEM, as                *)
(* TestPoolDoesNotReuseDeadConnection drives it: handles are acquired,     *)
(* the connections to the store are closed, operations are run on handles. *)
(***************************************************************************)
\* mgosession.NewPool(ctx, session, 3)
poolCapacity == 3

\* Handles acquired in one run.
MaxHandles == 5

Slots == 0 .. (poolCapacity - 1)

SessionIds == 1 .. (MaxHandles + 1)

NoSession == [state |-> "none", bad |-> FALSE, observedAt |-> 0]

NewSession == [state |-> "alive", bad |-> FALSE, observedAt |-> 0]

\* Pool.Session that keeps the session of a slot whatever was seen of it.
PoolSession_KeepDead(slots, index, sessions) ==
    LET held == slots[index]
        fresh == CHOOSE id \in SessionIds :
                    sessions[id].state = "none"
                    /\ \A k \in SessionIds : k < id => sessions[k].state # "none"
        replace == held = 0
        id == IF replace THEN fresh ELSE held
    IN  [slots |-> [slots EXCEPT ![index] = id],
         index |-> (index + 1) % poolCapacity,
         sessions |-> IF replace THEN [sessions EXCEPT ![id] = NewSession] ELSE sessions,
         handle |-> [slot |-> index, session |-> id, last |-> "none"]]

\* Pool.Session: the session of slot sessionIndex, replaced by a new one
\* when the slot is empty or an operation on its session was seen to fail;
\* sessionIndex moves on by one, modulo the capacity.
PoolSession(slots, index, sessions) ==
    LET held == slots[index]
        fresh == CHOOSE id \in SessionIds :
                    sessions[id].state = "none"
                    /\ \A k \in SessionIds : k < id => sessions[k].state # "none"
        replace == held = 0 \/ sessions[held].bad
        id == IF replace THEN fresh ELSE held
    IN  [slots |-> [slots EXCEPT ![index] = id],
         index |-> (index + 1) % poolCapacity,
         sessions |-> IF replace THEN [sessions EXCEPT ![id] = NewSession] ELSE sessions,
         handle |-> [slot |-> index, session |-> id, last |-> "none"]]

\* An operation on a handle (j.DB.Model): it fails with EOF when the
\* handle's session is dead, and the failure is noted on the session (with
\* the number of handles acquired so far, the first time).
PoolOperation(sessions, h, acquired) ==
    IF sessions[h.session].state = "dead"
    THEN [result |-> "broken",
          sessions |-> IF sessions[h.session].bad THEN sessions
                       ELSE [sessions EXCEPT ![h.session].bad = TRUE,
                                             ![h.session].observedAt = acquired]]
    ELSE [result |-> "ok", sessions |-> sessions]

\* session.CloseConns: every connection to the store is closed, which
\* kills the sessions that exist.
CloseConns(sessions) ==
    [id \in SessionIds |->
        IF sessions[id].state = "alive" THEN [sessions[id] EXCEPT !.state = "dead"]
        ELSE sessions[id]]

\* jem.NewPool has acquired (and released) the first session.
PoolInit ==
    /\ psSlots = [s \in Slots |-> IF s = 0 THEN 1 ELSE 0]
    /\ psIndex = 1 % poolCapacity
    /\ psSessions = [id \in SessionIds |-> IF id = 1 THEN NewSession ELSE NoSession]
    /\ psHandles = <<>>

\* pool.JEM
PJEM ==
    /\ Len(psHandles) < MaxHandles
    /\ LET r == PoolSession(psSlots, psIndex, psSessions)
       IN  /\ psSlots' = r.slots
           /\ psIndex' = r.index
           /\ psSessions' = r.sessions
           /\ psHandles' = Append(psHandles, r.handle)
    /\ PoolFrame

\* session.CloseConns
PCloseConns ==
    /\ psSessions' = CloseConns(psSessions)
    /\ UNCHANGED <<psSlots, psIndex, psHandles>>
    /\ PoolFrame

\* An operation on the i-th handle.
POperation(i) ==
    /\ i \in DOMAIN psHandles
    /\ LET r == PoolOperation(psSessions, psHandles[i], Len(psHandles))
       IN  /\ psSessions' = r.sessions
           /\ psHandles' = [psHandles EXCEPT ![i].last = r.result]
    /\ UNCHANGED <<psSlots, psIndex>>
    /\ PoolFrame

PoolNext ==
    \/ PJEM
    \/ PCloseConns
    \/ \E i \in 1 .. MaxHandles : POperation(i)

(***************************************************************************)
(* SpecBatch: the loop of watch around one batch: the request for the      *)
(* batch, the deltas added one by one, the updates handed to the runner    *)
(* (parallel.Run) while and after the deltas are added, and the wait for   *)
(* them.                                                                   *)
(***************************************************************************)
maxConcurrentUpdates == 10

\* Batches in one watch session.
MaxBatches == 2

\* Deltas in one batch.
MaxBatchDeltas == 2

\* Updates that the flush of one batch hands to the runner.
MaxFlushUpdates == 11

\* parallel.Run.Do: the function is started when fewer than the maximum are
\* running; until then Do blocks.
RunDo(started, completed) == started - completed < maxConcurrentUpdates

\* parallel.Run.Wait that returns at once.
RunWait_NoWait(started, completed) == TRUE

\* parallel.Run.Wait: returns when every function has completed.
RunWait(started, completed) == started = completed

BatchInit ==
    /\ bpc = "request"
    /\ bBatch = 0
    /\ bLen = 0
    /\ bApplied = <<>>
    /\ bToDispatch = 0
    /\ bStarted = 0
    /\ bCompleted = 0
    /\ bFailed = FALSE

\* The top of the loop: a goroutine is started that calls apiw.Next.
BRequest ==
    /\ bpc = "request"
    /\ bpc' = "select"
    /\ UNCHANGED <<bBatch, bLen, bApplied, bToDispatch, bStarted, bCompleted, bFailed>>
    /\ BatchFrame

\* The reply arrives: an error, or a batch of n deltas, for which a new
\* runner is made.
BReply(n, err) ==
    /\ bpc = "select"
    /\ IF err
       THEN /\ bpc' = "done"
            /\ UNCHANGED <<bBatch, bLen, bApplied, bStarted, bCompleted, bFailed>>
       ELSE /\ bBatch < MaxBatches
            /\ bpc' = "deltas"
            /\ bBatch' = bBatch + 1
            /\ bLen' = n
            /\ bApplied' = <<>>
            /\ bStarted' = 0
            /\ bCompleted' = 0
            /\ bFailed' = FALSE
    /\ UNCHANGED bToDispatch
    /\ BatchFrame

\* The tomb is dying: watch returns.
BDying ==
    /\ bpc = "select"
    /\ bpc' = "done"
    /\ UNCHANGED <<bBatch, bLen, bApplied, bToDispatch, bStarted, bCompleted, bFailed>>
    /\ BatchFrame

\* addDelta of the next delta of the batch; for a machine it hands
\* UpdateMachineInfo to the runner.
BAddDelta(machine) ==
    /\ bpc = "deltas"
    /\ Len(bApplied) < bLen
    /\ machine => RunDo(bStarted, bCompleted)
    /\ bApplied' = Append(bApplied, Len(bApplied) + 1)
    /\ bStarted' = IF machine THEN bStarted + 1 ELSE bStarted
    /\ UNCHANGED <<bpc, bBatch, bLen, bToDispatch, bCompleted, bFailed>>
    /\ BatchFrame

\* All deltas processed: the flush has n updates to hand to the runner.
BDeltasDone(n) ==
    /\ bpc = "deltas"
    /\ Len(bApplied) = bLen
    /\ bpc' = "dispatch"
    /\ bToDispatch' = n
    /\ UNCHANGED <<bBatch, bLen, bApplied, bStarted, bCompleted, bFailed>>
    /\ BatchFrame

\* w.runner.Do of the next update of the flush.
BDispatch ==
    /\ bpc = "dispatch"
    /\ bToDispatch > 0
    /\ RunDo(bStarted, bCompleted)
    /\ bToDispatch' = bToDispatch - 1
    /\ bStarted' = bStarted + 1
    /\ UNCHANGED <<bpc, bBatch, bLen, bApplied, bCompleted, bFailed>>
    /\ BatchFrame

\* Every update of the flush is handed over: w.runner.Wait is called.
BDispatched ==
    /\ bpc = "dispatch"
    /\ bToDispatch = 0
    /\ bpc' = "wait"
    /\ UNCHANGED <<bBatch, bLen, bApplied, bToDispatch, bStarted, bCompleted, bFailed>>
    /\ BatchFrame

\* A function that the runner started completes.
BComplete(ok) ==
    /\ bCompleted < bStarted
    /\ bCompleted' = bCompleted + 1
    /\ bFailed' = (bFailed \/ ~ok)
    /\ UNCHANGED <<bpc, bBatch, bLen, bApplied, bToDispatch, bStarted>>
    /\ BatchFrame

\* w.runner.Wait returns: with an error watch returns, otherwise the loop
\* goes round.
BWait ==
    /\ bpc = "wait"
    /\ RunWait(bStarted, bCompleted)
    /\ bpc' = IF bFailed THEN "done" ELSE "request"
    /\ UNCHANGED <<bBatch, bLen, bApplied, bToDispatch, bStarted, bCompleted, bFailed>>
    /\ BatchFrame

BatchNext ==
    \/ BRequest
    \/ \E n \in 0 .. MaxBatchDeltas, err \in BOOLEAN : BReply(n, err)
    \/ BDying
    \/ \E machine \in BOOLEAN : BAddDelta(machine)
    \/ \E n \in 0 .. MaxFlushUpdates : BDeltasDone(n)
    \/ BDispatch
    \/ BDispatched
    \/ \E ok \in BOOLEAN : BComplete(ok)
    \/ BWait

(***************************************************************************)
(* SpecSummaryAccess: controllerRoot.ListModelSummaries on one model whose *)
(* ACLs users change between calls.                                        *)
(***************************************************************************)
\* The users and groups that an ACL can name.
Principals == {"alice", "bob-group", "everyone"}

ACLTiers == {"admin", "write", "read"}

\* auth.CheckACL returns nil: the ACL names the user, one of the user's
\* groups, or everyone.
CheckACL(id, acl) ==
    \/ id.user \in acl
    \/ id.groups \cap acl # {}
    \/ "everyone" \in acl

\* The access level that tests the write ACL before the admin ACL.
userAccess_WriteFirst(id, model) ==
    IF id.user = model.owner THEN "admin"
    ELSE IF CheckACL(id, model.write) THEN "write"
    ELSE IF CheckACL(id, model.admin) THEN "admin"
    ELSE "read"

\* The switch of ListModelSummaries that sets UserAccess: read unless the
\* caller owns the model or passes the admin ACL, or else the write ACL.
userAccess(id, model) ==
    IF id.user = model.owner THEN "admin"
    ELSE IF CheckACL(id, model.admin) THEN "admin"
    ELSE IF CheckACL(id, model.write) THEN "write"
    ELSE "read"

\* doModels calls its function for the models the caller can read.
doModels(id, model) ==
    \/ id.user = model.owner
    \/ CheckACL(id, model.read)

\* ListModelSummaries for the one model: no result when doModels leaves the
\* model out, an error result when the provider type or the machines cannot
\* be read, and the summary with the caller's access otherwise.
ListModelSummaries(id, model, dbok) ==
    IF ~doModels(id, model) THEN [listed |-> FALSE, error |-> FALSE, access |-> ""]
    ELSE IF ~dbok THEN [listed |-> TRUE, error |-> TRUE, access |-> ""]
    ELSE [listed |-> TRUE, error |-> FALSE, access |-> userAccess(id, model)]

NoSummaryCall ==
    [called |-> FALSE, id |-> [user |-> "", groups |-> {}],
     model |-> [owner |-> "", admin |-> {}, write |-> {}, read |-> {}],
     res |-> [listed |-> FALSE, error |-> FALSE, access |-> ""]]

SummaryAccessInit ==
    /\ lsModel = [owner |-> "charlie", admin |-> {}, write |-> {}, read |-> {}]
    /\ lsLast = NoSummaryCall

\* A user or group is added to one of the model's ACLs, or removed from it.
LsSetACL(tier, who, grant) ==
    /\ lsModel' = [lsModel EXCEPT ![tier] = IF grant THEN @ \cup {who} ELSE @ \ {who}]
    /\ lsModel' # lsModel
    /\ lsLast' = NoSummaryCall
    /\ SummaryAccessFrame

\* A user calls ListModelSummaries.
LsListModelSummaries(id, dbok) ==
    /\ lsLast' = [called |-> TRUE, id |-> id, model |-> lsModel,
                  res |-> ListModelSummaries(id, lsModel, dbok)]
    /\ UNCHANGED lsModel
    /\ SummaryAccessFrame

SummaryAccessNext ==
    \/ \E tier \in ACLTiers, who \in Principals, grant \in BOOLEAN : LsSetACL(tier, who, grant)
    \/ \E id \in Identities, dbok \in BOOLEAN : LsListModelSummaries(id, dbok)

(***************************************************************************)
(* SpecDying: the life of one model from CreateModel to the deletion of    *)
(* its row.  The controller reports every change of the model to the       *)
(* all-watcher of the running session; the watcher (watchController) is    *)
(* started again whenever it has returned.                                 *)
(***************************************************************************)
\* The row of the model; its UUID is the row's ID.
TheModel == CHOOSE id \in RowIds : UUIDOf(id) # NoUUID

\* Deltas queued for one session at most.
MaxQueue == 3

ModelDelta(life) == [kind |-> "model", uuid |-> UUIDOf(TheModel), removed |-> FALSE, life |-> life]

RemovedDelta == [kind |-> "model", uuid |-> UUIDOf(TheModel), removed |-> TRUE, life |-> ""]

\* The all-watcher's queue after the controller reports delta d: only a
\* running session has an all-watcher.
Report(queue, pc, d) == IF pc = "idle" THEN queue ELSE Append(queue, d)

\* What the controller answers to ModelInfo.
ModelInfoReply(ctl) == IF ctl \in {"none", "gone"} THEN "notfound" ELSE "ok"

DyingInit ==
    /\ dyModels = NoModels
    /\ dyCtl = "none"
    /\ dyQueue = <<>>
    /\ dyBatch = <<>>
    /\ dyIDs = NoModelIDs
    /\ dypc = "idle"

\* Watch starts the controller's watcher: dialController, then
\* WatchAllModels, whose watcher first reports the models the controller has.
DyStart(ok) ==
    /\ dypc = "idle"
    /\ IF ok
       THEN /\ dypc' = "check"
            /\ dyQueue' = IF dyCtl \in ModelLives THEN <<ModelDelta(dyCtl)>> ELSE <<>>
       ELSE UNCHANGED <<dypc, dyQueue>>
    /\ dyIDs' = NoModelIDs
    /\ dyBatch' = <<>>
    /\ UNCHANGED <<dyModels, dyCtl>>
    /\ DyingFrame

\* checkControllerModels with checkDyingModel: the rows are read, ModelInfo
\* is asked for a dying row, and the rows with a UUID are put in modelIDs.
\* Any error ends the watcher.
DyCheck(qok, apiok, dbok) ==
    /\ dypc = "check"
    /\ LET row == dyModels[TheModel]
           asks == Present(dyModels, TheModel) /\ checkDyingModel(row)
           reply == IF apiok THEN ModelInfoReply(dyCtl) ELSE "error"
           r == IF asks
                THEN checkDyingModelReply(dyModels, TheModel, reply, dbok)
                ELSE [db |-> dyModels, err |-> Nil]
       IN  IF ~qok
           THEN /\ dypc' = "idle"
                /\ UNCHANGED <<dyModels, dyIDs>>
           ELSE /\ dyModels' = r.db
                /\ IF r.err = Nil
                   THEN /\ dypc' = "next"
                        /\ dyIDs' = IF Present(dyModels, TheModel)
                                    THEN [dyIDs EXCEPT ![UUIDOf(TheModel)] = TheModel]
                                    ELSE dyIDs
                   ELSE /\ dypc' = "idle"
                        /\ UNCHANGED dyIDs
    /\ UNCHANGED <<dyCtl, dyQueue, dyBatch>>
    /\ DyingFrame

\* AllModelWatcherNext returns the queued deltas, or an error.
DyNext(ok) ==
    /\ dypc = "next"
    /\ IF ok
       THEN /\ dyQueue # <<>>
            /\ dyBatch' = dyQueue
            /\ dyQueue' = <<>>
            /\ dypc' = "deltas"
       ELSE /\ dypc' = "idle"
            /\ UNCHANGED <<dyBatch, dyQueue>>
    /\ UNCHANGED <<dyModels, dyCtl, dyIDs>>
    /\ DyingFrame

\* handleDelta for the next delta of the batch.
DyHandleDelta(getok, dbok) ==
    /\ dypc = "deltas"
    /\ dyBatch # <<>>
    /\ LET r == handleDelta(dyModels, FALSE, dyIDs, Head(dyBatch), getok, dbok)
       IN  /\ dyModels' = r.db
           /\ dyIDs' = r.ids
           /\ IF r.err = Nil
              THEN /\ dyBatch' = Tail(dyBatch)
                   /\ UNCHANGED dypc
              ELSE /\ dyBatch' = <<>>
                   /\ dypc' = "idle"
    /\ UNCHANGED <<dyCtl, dyQueue>>
    /\ DyingFrame

\* The end of the batch: the UUIDs cached with ID 0 are forgotten.
DyBatchEnd ==
    /\ dypc = "deltas"
    /\ dyBatch = <<>>
    /\ dyIDs' = [u \in UUIDs |-> IF dyIDs[u] = 0 THEN NotCached ELSE dyIDs[u]]
    /\ dypc' = "next"
    /\ UNCHANGED <<dyModels, dyCtl, dyQueue, dyBatch>>
    /\ DyingFrame

\* CreateModel: the controller creates the model and its row appears.
DyCreateModel ==
    /\ dyCtl = "none"
    /\ Len(dyQueue) < MaxQueue
    /\ dyCtl' = "alive"
    /\ dyModels' = [dyModels EXCEPT ![TheModel] = [state |-> "present", life |-> "alive"]]
    /\ dyQueue' = Report(dyQueue, dypc, ModelDelta("alive"))
    /\ UNCHANGED <<dyBatch, dyIDs, dypc>>
    /\ DyingFrame

\* A successful DestroyModel: the controller starts destroying the model
\* and the row is left with life dying.
DyDestroyModel ==
    /\ dyCtl = "alive"
    /\ Present(dyModels, TheModel)
    /\ Len(dyQueue) < MaxQueue
    /\ dyCtl' = "dying"
    /\ dyModels' = [dyModels EXCEPT ![TheModel].life = "dying"]
    /\ dyQueue' = Report(dyQueue, dypc, ModelDelta("dying"))
    /\ UNCHANGED <<dyBatch, dyIDs, dypc>>
    /\ DyingFrame

\* The controller goes on destroying the model: it becomes dead (if dead
\* is TRUE and it was dying), or it is removed.
DyControllerStep(dead) ==
    /\ dyCtl \in {"dying", "dead"}
    /\ dead => dyCtl = "dying"
    /\ Len(dyQueue) < MaxQueue
    /\ dyCtl' = IF dead THEN "dead" ELSE "gone"
    /\ dyQueue' = Report(dyQueue, dypc, IF dead THEN ModelDelta("dead") ELSE RemovedDelta)
    /\ UNCHANGED <<dyModels, dyBatch, dyIDs, dypc>>
    /\ DyingFrame

DyingNext ==
    \/ \E ok \in BOOLEAN : DyStart(ok)
    \/ \E qok, apiok, dbok \in BOOLEAN : DyCheck(qok, apiok, dbok)
    \/ \E ok \in BOOLEAN : DyNext(ok)
    \/ \E getok, dbok \in BOOLEAN : DyHandleDelta(getok, dbok)
    \/ DyBatchEnd
    \/ DyCreateModel
    \/ DyDestroyModel
    \/ \E dead \in BOOLEAN : DyControllerStep(dead)

(***************************************************************************)
(* SpecNextLoop: the loop of controllerMonitor.watch and the goroutines    *)
(* it starts to call apiw.Next, one per turn, each sending its reply on    *)
(* the replyc of its call of watch.                                        *)
(***************************************************************************)
MaxWatchCalls == 2

MaxIters == 3

WatchCalls == 1 .. MaxWatchCalls

\* replyc := make(chan reply, 1)
ReplyCap == 1

\* A send finds no room in a channel without a buffer.
ReplyRoom_Unbuffered(buf) == Len(buf) < ReplyCap - 1

\* Whether a send on the channel goes into its buffer at once.
ReplyRoom(buf) == Len(buf) < ReplyCap

NoReply == [set |-> FALSE, turn |-> 0, at |-> 0]

NextLoopInit ==
    /\ nxpc = "watch"
    /\ nxCall = 0
    /\ nxIter = 0
    /\ nxCalling = {}
    /\ nxSending = {}
    /\ nxReplyc = [c \in WatchCalls |-> <<>>]
    /\ nxDying = FALSE
    /\ nxStopped = {}
    /\ nxGot = NoReply
    /\ nxInFlight = FALSE

\* watch returns an error other than tomb.ErrDying: the deferred apiw.Stop
\* runs, and the watcher loop will call watch again unless the tomb is dying.
NxReturn ==
    /\ nxpc' = "watch"
    /\ nxStopped' = nxStopped \cup {nxCall}

\* watch is called: WatchAllModels, and a replyc of its own.
NxWatch(ok) ==
    /\ nxpc = "watch"
    /\ ~nxDying
    /\ nxCall < MaxWatchCalls
    /\ nxCall' = nxCall + 1
    /\ nxpc' = IF ok THEN "go" ELSE "watch"
    /\ UNCHANGED <<nxIter, nxCalling, nxSending, nxReplyc, nxDying, nxStopped, nxGot, nxInFlight>>
    /\ NextLoopFrame

\* The watcher loop finds the tomb dying before it calls watch again.
NxEnd ==
    /\ nxpc = "watch"
    /\ nxDying
    /\ nxpc' = "done"
    /\ UNCHANGED <<nxCall, nxIter, nxCalling, nxSending, nxReplyc, nxDying, nxStopped, nxGot, nxInFlight>>
    /\ NextLoopFrame

\* A turn of the loop starts a goroutine.
NxGo ==
    /\ nxpc = "go"
    /\ nxIter < MaxIters
    /\ nxIter' = nxIter + 1
    /\ nxCalling' = nxCalling \cup {[turn |-> nxIter + 1, call |-> nxCall]}
    /\ nxpc' = "select"
    /\ UNCHANGED <<nxCall, nxSending, nxReplyc, nxDying, nxStopped, nxGot, nxInFlight>>
    /\ NextLoopFrame

\* apiw.Next returns in a goroutine; a stopped watcher returns an error.
NxNextReturns(g, err) ==
    /\ g \in nxCalling
    /\ g.call \in nxStopped => err
    /\ nxCalling' = nxCalling \ {g}
    /\ nxSending' = nxSending \cup {[turn |-> g.turn, call |-> g.call, err |-> err]}
    /\ UNCHANGED <<nxpc, nxCall, nxIter, nxReplyc, nxDying, nxStopped, nxGot, nxInFlight>>
    /\ NextLoopFrame

\* The goroutine's send: it needs room in the channel's buffer, and the
\* goroutine ends with it.
NxSend(g) ==
    /\ g \in nxSending
    /\ ReplyRoom(nxReplyc[g.call])
    /\ nxReplyc' = [nxReplyc EXCEPT ![g.call] = Append(@, [turn |-> g.turn, err |-> g.err])]
    /\ nxSending' = nxSending \ {g}
    /\ UNCHANGED <<nxpc, nxCall, nxIter, nxCalling, nxDying, nxStopped, nxGot, nxInFlight>>
    /\ NextLoopFrame

\* select: case r = <-replyc.
NxReply ==
    /\ nxpc = "select"
    /\ nxReplyc[nxCall] # <<>>
    /\ LET r == Head(nxReplyc[nxCall])
       IN  /\ nxReplyc' = [nxReplyc EXCEPT ![nxCall] = Tail(@)]
           /\ nxGot' = [set |-> TRUE, turn |-> r.turn, at |-> nxIter]
           /\ IF r.err
              THEN NxReturn
              ELSE nxpc' = "deltas" /\ UNCHANGED nxStopped
    /\ UNCHANGED <<nxCall, nxIter, nxCalling, nxSending, nxDying, nxInFlight>>
    /\ NextLoopFrame

\* select: case <-m.tomb.Dying(); watch returns tomb.ErrDying, the deferred
\* apiw.Stop runs and the watcher returns.
NxDying ==
    /\ nxpc = "select"
    /\ nxDying
    /\ nxpc' = "done"
    /\ nxStopped' = nxStopped \cup {nxCall}
    /\ nxInFlight' = (nxCalling # {} \/ nxSending # {})
    /\ UNCHANGED <<nxCall, nxIter, nxCalling, nxSending, nxReplyc, nxDying, nxGot>>
    /\ NextLoopFrame

\* The deltas of the reply are added and the updates waited for.
NxDeltas(ok) ==
    /\ nxpc = "deltas"
    /\ IF ok
       THEN nxpc' = "go" /\ UNCHANGED nxStopped
       ELSE NxReturn
    /\ UNCHANGED <<nxCall, nxIter, nxCalling, nxSending, nxReplyc, nxDying, nxGot, nxInFlight>>
    /\ NextLoopFrame

\* The tomb is killed.
NxKill ==
    /\ ~nxDying
    /\ nxDying' = TRUE
    /\ UNCHANGED <<nxpc, nxCall, nxIter, nxCalling, nxSending, nxReplyc, nxStopped, nxGot, nxInFlight>>
    /\ NextLoopFrame

NextLoopNext ==
    \/ \E ok \in BOOLEAN : NxWatch(ok)
    \/ NxEnd
    \/ NxGo
    \/ \E g \in nxCalling, err \in BOOLEAN : NxNextReturns(g, err)
    \/ \E g \in nxSending : NxSend(g)
    \/ NxReply
    \/ NxDying
    \/ \E ok \in BOOLEAN : NxDeltas(ok)
    \/ NxKill

Init ==
    /\ LeaseInit
    /\ ReducerInit
    /\ MonitorInit
    /\ WatchInit
    /\ WatchControllerInit
    /\ SummariesInit
    /\ GatewayInit
    /\ ConnInit
    /\ SelectInit
    /\ CreateInit
    /\ PoolInit
    /\ BatchInit
    /\ DyingInit
    /\ SummaryAccessInit
    /\ NextLoopInit

SpecLease == Init /\ [][LeaseNext]_vars

SpecReducer == Init /\ [][ReducerNext]_vars

SpecFlush == Init /\ [][FlushNext]_vars

SpecMonitor == Init /\ [][MonitorNext]_vars

SpecWatcherCred == Init /\ [][WatcherCredNext]_vars

SpecWatch == Init /\ [][WatchNext]_vars

SpecWatchController == Init /\ [][WatchControllerNext]_vars

SpecSummaries == Init /\ [][SummariesNext]_vars

SpecGateway == Init /\ [][GatewayNext]_vars

SpecConn == Init /\ [][ConnNext]_vars

SpecSelect == Init /\ [][SelectNext]_vars

SpecCreate == Init /\ [][CreateNext]_vars

SpecPool == Init /\ [][PoolNext]_vars

SpecBatch == Init /\ [][BatchNext]_vars

SpecNextLoop == Init /\ [][NextLoopNext]_vars

\* The scheduler runs a goroutine that can send, and a stopped watcher's
\* Next returns.
NextLoopFairness ==
    /\ WF_vars(\E g \in nxSending : NxSend(g))
    /\ WF_vars(\E g \in nxCalling : g.call \in nxStopped /\ NxNextReturns(g, TRUE))

SpecNextLoopFair == SpecNextLoop /\ NextLoopFairness

SpecDying == Init /\ [][DyingNext]_vars

SpecSummaryAccess == Init /\ [][SummaryAccessNext]_vars

\* The watcher loop's calls return, and a select that finds the tomb dying
\* again and again takes that branch in the end.
MonitorFairness ==
    /\ WF_vars(MDial)
    /\ WF_vars(\E ok \in BOOLEAN : MSetAvailable(ok))
    /\ WF_vars(\E ok \in BOOLEAN : MUpdateCredentials(ok))
    /\ WF_vars(\E ok \in BOOLEAN : MWatchAllModels(ok))
    /\ WF_vars(\E wr, ok \in BOOLEAN : MFlush(wr, ok))
    /\ WF_vars(\E ok \in BOOLEAN : MSetUnavailable(ok))
    /\ SF_vars(MDialDying \/ MWatchDying \/ MSleepDying)

SpecMonitorFair == SpecMonitor /\ MonitorFairness

SpecWatcherCredFair == SpecWatcherCred /\ MonitorFairness

\* A select of handle that has a ready branch takes one.
ConnFairness ==
    /\ WF_vars(WPingTimeout)
    /\ WF_vars(WConnDead)

SpecConnFair == SpecConn /\ ConnFairness

\* The database, the controller and the poll loop of Watch answer in the
\* end: a step of the watcher that can succeed again and again does, and
\* the controller finishes destroying a model.
DyingFairness ==
    /\ SF_vars(DyStart(TRUE))
    /\ SF_vars(DyCheck(TRUE, TRUE, TRUE))
    /\ SF_vars(DyNext(TRUE))
    /\ SF_vars(DyHandleDelta(TRUE, TRUE))
    /\ WF_vars(DyBatchEnd)
    /\ WF_vars(DyControllerStep(FALSE))

SpecDyingFair == SpecDying /\ DyingFairness

\* Instance i's monitor of c is running and its lease has not expired.
HoldsLease(i, c) == mons[i][c].pc = "wait" /\ mons[i][c].leaseExpiry > now

\* The owner of a stored lease whose expiry is in the future.
StoredHolders(c) ==
    IF ctls[c].exists /\ ctls[c].owner # NoOwner /\ ctls[c].expiry > now
    THEN {ctls[c].owner}
    ELSE {}

C2_AcquireContract ==
    [][lastAcq'.flip # lastAcq.flip =>
        LET a == lastAcq'
            pre == ctls[a.c]
            post == ctls'[a.c]
            matches == pre.expiry = a.oldExpiry /\ pre.owner = a.oldOwner
        IN  /\ ~pre.exists => a.err = errControllerRemoved /\ post = pre
            /\ pre.exists =>
                  /\ (a.err = Nil) <=> (matches \/ pre.expiry <= now)
                  /\ a.err # Nil => a.err = ErrLeaseUnavailable /\ post = pre
                  /\ a.err = Nil =>
                        /\ post.owner = a.newOwner
                        /\ post.expiry = a.actual
                        /\ a.newOwner # NoOwner => a.actual = now + leaseExpiryDuration
       ]_vars

\* An acquire was refused because another instance holds the lease.
C2_Witness ==
    /\ lastAcq.err = ErrLeaseUnavailable
    /\ ctls[lastAcq.c].owner \notin {NoOwner, lastAcq.by}
    /\ ctls[lastAcq.c].expiry > now

\* The number of entity ids of a kind in a set of entity ids.
KindCount(ids, kind) == Cardinality({e \in ids : e.kind = kind})

\* C3: after any prefix of a session's deltas, each controller counter
\* (model, unit, application, machine) equals the number of distinct ids of
\* that kind whose last delta was not a removal, which is the number of ids
\* of that kind in the known-entity set, and no counter is negative.
C3_CountersMatchEntities ==
    \A k \in EntityKinds \cup {"model"} :
        /\ wstate.stats[StatsField(k)] = KindCount(live, k)
        /\ wstate.stats[StatsField(k)] = KindCount(wstate.entities, k)
        /\ wstate.stats[StatsField(k)] >= 0

\* Four deltas were added, two of them repeats or removals, and the two
\* units that remain are counted.
C3_Witness ==
    /\ nDeltas = 4
    /\ wstate.stats.UnitCount = 2
    /\ Cardinality(live) = 2

\* Both loops of the monitor have returned: Wait returns.
MonitorDead == lpc = "done" /\ wpc = "done"

\* C4: after Kill, once both loops have returned (Wait returns) and the
\* goroutine of dialAPI has finished, no API connection is left open.
C4_NoConnectionLeftOpen ==
    (killed /\ MonitorDead /\ dg \notin {"open", "reply"})
        => \A id \in ConnIds : conns[id] # "open"

\* The last renewal found the lease taken or the controller removed.
LeaseLost == lraw \in {ErrLeaseUnavailable, ErrNotFound}

\* C5: when a renewal fails because the lease is unavailable or the
\* controller is gone, the lease loop returns an error that satisfies
\* isMonitoringStoppedError and the tomb is dying; the watcher loop then
\* stops; and once it has, the monitor writes nothing more to the store.
C5_LeaseLossStopsMonitor ==
    /\ [](LeaseLost => /\ lpc = "done"
                       /\ isMonitoringStoppedError(lret)
                       /\ tomb.dying)
    /\ (LeaseLost ~> wpc = "done")
    /\ [][(LeaseLost /\ wpc = "done") => (wrote' = wrote /\ lpc' = "done" /\ wpc' = "done")]_vars

C5_Witness ==
    /\ lraw = ErrLeaseUnavailable
    /\ ~killed
    /\ MonitorDead
    /\ wret = ErrDying
    /\ \E id \in ConnIds : conns[id] = "closed"

\* C6: within one Watch call at most one controller-watcher goroutine is
\* live for a controller name, and a poll that finds the controller's
\* watcher still running starts no second one.
C6_OneWatcherPerController ==
    \A c \in WatchControllers :
        /\ Cardinality(LiveOf(c)) <= 1
        /\ runnerState.running[c] <=> LiveOf(c) # {}

C6_Witness ==
    /\ lastVisit["c1"] = "skipped"
    /\ \E g \in Gids : slot[g].name = "c1" /\ slot[g].pc = "session"
    /\ \E g \in Gids : slot[g].name = "c2" /\ slot[g].pc # "free"

\* C7: once Watch has returned no watcher it started is still running, and
\* while it waits for them the derived context is already cancelled.
C7_WatchWaitsForWatchers ==
    /\ spc = "returned" => (ctxDone /\ \A g \in Gids : slot[g].pc = "free")
    /\ (spc = "return" /\ defers # <<>> /\ Head(defers) = "r.wait") => ctxDone

C7_Witness ==
    /\ spc = "returned"
    /\ sret = ErrDatabase
    /\ ~parentDone
    /\ lastVisit["c1"] = "started"
    /\ lastVisit["c2"] = "started"
    /\ lastDial["c1"] = "ok"

\* C8: after a successful dial of a controller its stored record has
\* unavailableSince unset, whatever failed dials came before.
C8_SuccessfulDialClearsUnavailable ==
    \A c \in WatchControllers : lastDial[c] = "ok" => ~sctls[c].unavailable

\* C9: a Removed model delta deletes the row that handleDelta resolves for
\* its UUID if and only if that row's life is "dying" (and the transaction
\* does not fail); a row with any other life is left as it is, no other row
\* and no unit row is written, and when the model has no row nothing is
\* written at all.
C9_RemovedModelDelta ==
    [][(lastH'.set /\ lastH'.d.kind = "model" /\ lastH'.d.removed) =>
        /\ dbUnits' = dbUnits
        /\ \A k \in RowIds : k # lastH'.id => dbModels'[k] = dbModels[k]
        /\ lastH'.id \in RowIds =>
              /\ UUIDOf(lastH'.id) = lastH'.d.uuid
              /\ IF Present(dbModels, lastH'.id)
                    /\ dbModels[lastH'.id].life = "dying"
                    /\ lastH'.dbok
                 THEN dbModels'[lastH'.id].state = "deleted"
                 ELSE dbModels'[lastH'.id] = dbModels[lastH'.id]
        /\ GetModelByUUID(dbModels, lastH'.d.uuid) = 0 => dbModels' = dbModels
      ]_vars

C9_Witness ==
    /\ lastH.set
    /\ lastH.d.kind = "model"
    /\ lastH.d.removed
    /\ lastH.wrote
    /\ lastH.id = 1
    /\ dbModels[1].state = "deleted"

\* C10: in the check that watchController makes before it takes deltas, a
\* model with a UUID is deleted if and only if the rows read show it dying
\* and the controller answers not found to ModelInfo (and the delete does
\* not fail); ModelInfo is called for dying models only; and the check has
\* been through every model before the first batch of deltas is received.
C10_InitialReconciliation ==
    /\ cpc \in {"start", "check", "modelinfo"} => ~consumed
    /\ ~consumed =>
          \A id \in RowIds :
              /\ answers[id] # "none" =>
                    /\ Present(snapModels, id)
                    /\ UUIDOf(id) # NoUUID
                    /\ snapModels[id].life = "dying"
              /\ (Present(snapModels, id) /\ dbModels[id].state = "deleted") =>
                    answers[id] = "notfound"
              /\ answers[id] = "notfound" =>
                    \/ dbModels[id].state = "deleted"
                    \/ cpc = "done" /\ cret = ErrDatabase
    /\ (cpc = "next" /\ ~consumed) =>
          \A id \in RowIds :
              Present(snapModels, id) =>
                  /\ id \in checked
                  /\ UUIDOf(id) # NoUUID => modelIDs[UUIDOf(id)] = id
                  /\ (UUIDOf(id) # NoUUID /\ snapModels[id].life = "dying") =>
                        answers[id] \in {"ok", "notfound"}

C10_Witness ==
    /\ cpc = "next"
    /\ ~consumed
    /\ answers[1] = "notfound"
    /\ dbModels[1].state = "deleted"
    /\ Present(snapModels, MaxRows)

\* The admins of the list that are not local, in their order.
NonLocalAdmins(admins) == SelectSeq(admins, LAMBDA a : ~IsLocal(a))

\* C11: a summary whose model has a row is published exactly once, on the
\* topic of its model UUID, with its admins reduced to those that are not
\* local, in their order; a summary whose model has no row is not published
\* (stated for the summaries taken while the database answers).
C11_SummaryPublishedOnce ==
    (lastSum.set /\ lastSum.getok) =>
        hub = IF lastSum.tracked
              THEN <<[topic |-> lastSum.summary.uuid,
                      summary |-> [lastSum.summary EXCEPT
                                     !.admins = NonLocalAdmins(lastSum.summary.admins)]]>>
              ELSE <<>>

ModelScopedOps ==
    {"ModelInfo", "ModifyModelAccess", "DumpModels", "DumpModelsV3", "DumpModelsDB",
     "ChangeModelCredential"}

\* C12: a model-scoped gateway operation asked about a model that has no
\* local row does not answer with a NotFound error (NotFound is mapped to
\* Unauthorized, the error of a model the caller may not access).
C12_NotFoundIsUnauthorized ==
    (gwLast.op \in ModelScopedOps /\ gwLast.tag \in ModelUUIDs /\ ~gwLast.row.exists) =>
        /\ gwLast.error.Message # ErrNotFound
        /\ gwLast.error.Code # CodeNotFound

\* The last request reached the controller with a grant or revoke (the model
\* has a row and the caller administers it), and what the controller said.
ModifyReachedController ==
    /\ gwLast.op = "ModifyModelAccess"
    /\ gwLast.tag \in ModelUUIDs
    /\ gwLast.user # BadTag
    /\ gwLast.action \in {"grant", "revoke"}
    /\ gwLast.row.exists
    /\ gwLast.caller = gwLast.row.owner

ControllerSaid ==
    ControllerModifyAccess(IF gwLast.had THEN {gwLast.tag} ELSE {}, gwLast.tag,
                           gwLast.access, gwLast.apiErr)

\* C15 as stated: when the controller call of a grant or a revoke fails, the
\* model's local ACL is what it was before the call.
C15_FailedChangeLeavesACL ==
    (ModifyReachedController /\ ControllerSaid # Nil) =>
        jemModels[gwLast.tag] = gwLast.row

\* C15 amended: a grant whose controller call fails leaves the local ACL as
\* it was and one that succeeds adds the user; a revoke removes the user from
\* the local ACL also when its controller call fails.
C15_GrantOnlyOnSuccess ==
    ModifyReachedController =>
        /\ gwLast.jemErr = ControllerSaid
        /\ jemModels[gwLast.tag] =
             IF gwLast.action = "revoke"
             THEN [gwLast.row EXCEPT !.read = @ \ {gwLast.user}]
             ELSE IF ControllerSaid # Nil THEN gwLast.row
             ELSE [gwLast.row EXCEPT !.read = @ \cup {gwLast.user}]

\* A grant with an access level the controller refuses.
C15_Witness ==
    /\ ModifyReachedController
    /\ gwLast.action = "grant"
    /\ gwLast.access = "superpowers"
    /\ gwLast.had
    /\ gwLast.apiErr = Nil
    /\ gwLast.user \notin gwLast.row.read
    /\ gwLast.error.Message = ErrAPI

\* C16: after a revoke that reached the controller, the user is not in the
\* model's local ACL, whether the controller accepted the revoke or not, and
\* the controller's error is the result.
C16_RevokeRemovesLocally ==
    (ModifyReachedController /\ gwLast.action = "revoke") =>
        /\ gwLast.user \notin jemModels[gwLast.tag].read
        /\ gwLast.jemErr = ControllerSaid
        /\ gwLast.error = mapError(ControllerSaid)

\* A revoke of a user of the ACL that the controller refuses.
C16_Witness ==
    /\ ModifyReachedController
    /\ gwLast.action = "revoke"
    /\ gwLast.user \in gwLast.row.read
    /\ gwLast.access = "superpowers"
    /\ gwLast.error.Message = ErrAPI
    /\ gwLast.user \notin jemModels[gwLast.tag].read

DestroyOps == {"DestroyModels", "DestroyModelsV4"}

\* C19: a destroy request for a model without a local row reports no error,
\* and every error of DestroyModel other than NotFound is in the entry.
C19_DestroyIdempotent ==
    (gwLast.op \in DestroyOps /\ gwLast.tag \in ModelUUIDs) =>
        /\ ~gwLast.row.exists => gwLast.error = NoError
        /\ gwLast.jemErr \notin {Nil, ErrNotFound} => gwLast.error = mapError(gwLast.jemErr)
        /\ gwLast.jemErr \in {Nil, ErrNotFound} => gwLast.error = NoError

\* A destroy request for a model that has no local row.
C19_Witness ==
    /\ gwLast.op \in DestroyOps
    /\ gwLast.tag \in ModelUUIDs
    /\ ~gwLast.row.exists
    /\ gwLast.jemErr = ErrNotFound
    /\ gwLast.error = NoError

\* C20: DestroyModel by the owner on a model with a local row, when the
\* controller destroys the model or does not have it, succeeds and removes
\* the row; on a model without a local row it fails with a not-found error.
C20_DestroyModel ==
    (gwLast.op \in DestroyOps /\ gwLast.tag \in ModelUUIDs) =>
        /\ (gwLast.row.exists /\ gwLast.caller = gwLast.row.owner
                /\ (~gwLast.had \/ gwLast.apiErr = Nil)) =>
              (gwLast.jemErr = Nil /\ ~jemModels[gwLast.tag].exists)
        /\ ~gwLast.row.exists =>
              (gwLast.jemErr = ErrNotFound /\ ~jemModels[gwLast.tag].exists)

\* A destroy of a model that has a row and that the controller no longer has.
C20_Witness ==
    /\ gwLast.op \in DestroyOps
    /\ gwLast.tag \in ModelUUIDs
    /\ gwLast.row.exists
    /\ ~gwLast.had
    /\ gwLast.jemErr = Nil
    /\ ~jemModels[gwLast.tag].exists

\* The last Login was on a connection that is not redirected.
LoginNotRedirected == wsLogin.called /\ wsKind # "model"

\* C13 as stated: a Login with a missing or invalid macaroon returns no
\* error but a newly issued macaroon with the verification failure as
\* reason, and leaves the username alone; a Login whose macaroons verify
\* sets the username to the username attribute.
C13_LoginDischargeOrUser ==
    /\ (wsLogin.called /\ wsLogin.check = "verification error") =>
          /\ wsLogin.res.err = Nil
          /\ wsLogin.res.discharge > wsLogin.mintedBefore
          /\ wsLogin.res.reason = VerificationFailure
          /\ wsUsername = wsLogin.userBefore
    /\ (wsLogin.called /\ wsLogin.check = "verified") => wsUsername = wsLogin.attrUser

\* C13 amended: the same on a connection that is not redirected and when a
\* macaroon can be issued; when none can be issued Login returns an error,
\* and on a connection for another model it returns the redirect error; in
\* both cases the username is left alone.
C13_LoginUnlessRedirected ==
    /\ (LoginNotRedirected /\ wsLogin.check = "verification error") =>
          /\ wsUsername = wsLogin.userBefore
          /\ IF wsLogin.newMacOk
             THEN /\ wsLogin.res.err = Nil
                  /\ wsLogin.res.discharge > wsLogin.mintedBefore
                  /\ wsLogin.res.discharge = wsMinted
                  /\ wsLogin.res.reason = VerificationFailure
             ELSE /\ wsLogin.res.err # Nil
                  /\ wsLogin.res.discharge = 0
    /\ (LoginNotRedirected /\ wsLogin.check = "verified") => wsUsername = wsLogin.attrUser
    /\ (wsLogin.called /\ wsKind = "model") =>
          /\ wsLogin.res.err = CodeRedirect
          /\ wsUsername = wsLogin.userBefore

\* A logged-in connection on which a later Login comes without a valid
\* macaroon and gets a second macaroon issued.
C13_Witness ==
    /\ LoginNotRedirected
    /\ wsLogin.check = "verification error"
    /\ wsLogin.userBefore = "bob"
    /\ wsLogin.attrUser = "alice"
    /\ wsLogin.res.discharge = 2
    /\ wsUsername = "bob"

PathRank(c) == CHOOSE i \in DOMAIN SortedControllers : SortedControllers[i] = c

\* The controllers of the store the last SelectController could choose from:
\* readable by the caller (owner, or user or group in the read ACL) and at
\* the cloud and, if given, the region.
SelectCandidates ==
    {c \in {SortedControllers[i] : i \in DOMAIN SortedControllers} :
        /\ c.path \in selCtls
        /\ \/ c.owner = lastSel.id.user
           \/ lastSel.id.user \in c.read
           \/ lastSel.id.groups \cap c.read # {}
        /\ lastSel.cloud = "" \/ c.cloud = lastSel.cloud
        /\ lastSel.region = "" \/ c.region = lastSel.region}

\* C18: SelectController returns a candidate, the one with intn(n)
\* candidates before it in path order, and ErrNotFound without candidates.
C18_SelectController ==
    lastSel.called =>
        IF SelectCandidates = {}
        THEN lastSel.err = ErrNotFound /\ lastSel.path = ""
        ELSE /\ lastSel.err = Nil
             /\ \E c \in SelectCandidates :
                    /\ c.path = lastSel.path
                    /\ Cardinality({d \in SelectCandidates : PathRank(d) < PathRank(c)})
                         = lastSel.rnd

\* The test's case: bob asks for aws, us-east-1 and intn gives 1.
C18_Witness ==
    /\ lastSel.called
    /\ selCtls = SelectPaths
    /\ lastSel.id = [user |-> "bob", groups |-> {"bob-group"}]
    /\ lastSel.cloud = "aws"
    /\ lastSel.region = "us-east-1"
    /\ lastSel.rnd = 1
    /\ lastSel.path = "bob/aws-us-east-1"

\* The last CreateModel named no credential and was by the model's owner.
CreateWithoutCredential ==
    /\ lastCreate.called
    /\ lastCreate.p.credential = ""
    /\ lastCreate.user = lastCreate.p.path.user

OwnerCredentials == {c \in crCreds : c[1] = lastCreate.p.path.user}

\* C17: a CreateModel without a credential fails with ErrAmbiguousChoice and
\* changes nothing when the owner has several credentials; otherwise it is
\* not ambiguous, and the model it creates has the owner's only credential,
\* or none when the owner has none.
C17_CredentialChoice ==
    CreateWithoutCredential =>
        IF Cardinality(OwnerCredentials) > 1
        THEN /\ lastCreate.err = ErrAmbiguousChoice
             /\ crModels = lastCreate.models
             /\ crRemote = lastCreate.remote
        ELSE /\ lastCreate.err # ErrAmbiguousChoice
             /\ lastCreate.err = Nil =>
                  /\ crModels[lastCreate.p.path].exists
                  /\ lastCreate.p.path \in crRemote
                  /\ \/ /\ OwnerCredentials = {}
                        /\ crModels[lastCreate.p.path].credential = ""
                     \/ \E c \in OwnerCredentials :
                            crModels[lastCreate.p.path].credential = c[2]
             /\ (/\ ~lastCreate.models[lastCreate.p.path].exists
                 /\ "bob/controller" \in selCtls
                 /\ lastCreate.p.region = ""
                 /\ lastCreate.apiErr = Nil) => lastCreate.err = Nil

\* bob, who has two credentials, creates a model without naming one, while
\* alice's model exists.
C17_Witness ==
    /\ CreateWithoutCredential
    /\ lastCreate.user = "bob"
    /\ Cardinality(OwnerCredentials) = 2
    /\ "bob/controller" \in selCtls
    /\ lastCreate.err = ErrAmbiguousChoice
    /\ \E m \in ModelPaths : crModels[m].exists

HandleSession(i) == psSessions[psHandles[i].session]

C23_BatchBoundary ==
    /\ [](\A i \in DOMAIN bApplied : bApplied[i] = i)
    /\ [](Len(bApplied) <= bLen)
    /\ [](bpc \in {"request", "select"} => bCompleted = bStarted)
    /\ [][bBatch' # bBatch => (bCompleted = bStarted /\ bToDispatch = 0)]_vars
    /\ [](bStarted - bCompleted <= maxConcurrentUpdates)

\* The second batch is requested after a batch whose updates (more than
\* maxConcurrentUpdates of them) have all completed.
C23_Witness ==
    /\ bpc = "select"
    /\ bBatch = 1
    /\ bLen = 2
    /\ bStarted > maxConcurrentUpdates
    /\ bCompleted = bStarted
\* The watch loop finishes a batch: its updates are issued.
FlushStep == rpc = "deltas" /\ rpc' # "deltas"

\* The updates of one kind issued for model m.
IssuedFor(ops, name, m) == {op \in ops : op.op = name /\ op.model = m}

\* C24: at each flush, for every per-model entry, SetModelLife is issued
\* (once, with the entry's life) exactly when the entry's lifeChange bit is
\* set, and UpdateModelCounts (once, with its counts) exactly when its
\* countsChange bit is set; after the flush every entry's changed mask is
\* zero; a delta for another model leaves an entry as it is, so a model
\* untouched by the next batch has no update at the next flush.
C24_FlushByChangedBits ==
    /\ [][FlushStep =>
            \A m \in ModelUUIDs :
                /\ IssuedFor(flushed', "SetModelLife", m) =
                      IF lifeChange \in wstate.models[m].changed
                      THEN {[op |-> "SetModelLife", model |-> m, arg |-> wstate.models[m].life]}
                      ELSE {}
                /\ IssuedFor(flushed', "UpdateModelCounts", m) =
                      IF countsChange \in wstate.models[m].changed
                      THEN {[op |-> "UpdateModelCounts", model |-> m, arg |-> wstate.models[m].counts]}
                      ELSE {}
                /\ wstate'.models[m].changed = {}]_vars
    /\ [](rpc = "next" => \A m \in ModelUUIDs : wstate.models[m].changed = {})
    /\ [](\A m \in ModelUUIDs, d \in Deltas :
            d.model # m => addDelta(wstate, d).models[m] = wstate.models[m])

\* A flush issued SetModelLife for a model whose life alone had changed and
\* nothing for the other model, which the batch had not touched.
C24_Witness ==
    /\ rpc = "next"
    /\ flushed = {[op |-> "SetModelLife", model |-> "m1", arg |-> "dying"]}
    /\ wstate.models["m2"].known
    /\ wstate.models["m1"].counts = ZeroCounts
\* The updates that a flush right now would issue, with those already
\* handed to the runner.
WritesAtFlush(w) == w.runner \cup FlushOps(w)

\* C25: a removed delta (of any kind, Model included) for an entity id that
\* is not in the known-entity set has no effect: the counters, the
\* known-entity set, the per-model map and every changed flag are after it
\* what they were before it, and it adds no store write to the next flush.
C25_RemovedUnknownNoEffect ==
    rpc = "deltas" =>
        \A d \in Deltas :
            (d.removed /\ EntityId(d) \notin wstate.entities) =>
                LET w == addDelta(wstate, d)
                IN  /\ w.stats = wstate.stats
                    /\ w.entities = wstate.entities
                    /\ w.models = wstate.models
                    /\ w.changed = wstate.changed
                    /\ WritesAtFlush(w) = WritesAtFlush(wstate)
\* The SetControllerStats updates among some updates.
StatsWrites(ops) == {op \in ops : op.op = "SetControllerStats"}

\* The watcher state when a batch has arrived: w.changed is reset and a new
\* runner made.
BatchStart(w) == [w EXCEPT !.changed = FALSE, !.runner = {}]

\* C26 as stated: for each batch (here: every batch of two deltas, at every
\* batch boundary) at most one SetControllerStats is issued, and one is
\* issued exactly when the four counters after the batch differ from the
\* counters before it.
C26_StatsWriteIffCountersDiffer ==
    rpc = "next" =>
        \A d1, d2 \in Deltas :
            LET w0 == BatchStart(wstate)
                w2 == addDelta(addDelta(w0, d1), d2)
            IN  /\ Cardinality(StatsWrites(FlushOps(w2))) <= 1
                /\ (StatsWrites(FlushOps(w2)) # {}) <=> (w2.stats # w0.stats)

\* C26, amended: at each flush at most one SetControllerStats is issued,
\* with the counters as they are, and one is issued exactly when w.changed
\* is set; w.changed is unset when a batch arrives and a delta sets it
\* exactly when it adjusts a counter: the statistics are written exactly
\* when some delta of the batch adjusted a counter.
C26_StatsWriteIffAdjusted ==
    /\ [][FlushStep =>
            StatsWrites(flushed') =
                IF wstate.changed
                THEN {[op |-> "SetControllerStats", model |-> "", arg |-> wstate.stats]}
                ELSE {}]_vars
    /\ [][(rpc = "next" /\ rpc' = "deltas") => ~wstate'.changed]_vars
    /\ [](rpc = "deltas" =>
            \A d \in Deltas :
                addDelta(wstate, d).changed
                    <=> (wstate.changed \/ addDelta(wstate, d).stats # wstate.stats))

\* The two deltas of the session are in one batch (the model's entry was
\* made in it); they add an entity and remove it again: the counters are
\* what they were before the batch, and w.changed is set.
C26_Witness ==
    /\ rpc = "deltas"
    /\ nDeltas = 2
    /\ wstate.changed
    /\ wstate.stats = ZeroStats
    /\ \E m \in ModelUUIDs : wstate.models[m].changed = AllChanged
\* counts[m][k]: the count of kind k in the per-model map (nothing is
\* counted for a model that has no entry).
ModelCount(m, k) == IF wstate.models[m].known THEN wstate.models[m].counts[k] ELSE 0

\* The known entities of kind k in model m.
KnownEntities(m, k) == {e \in wstate.entities : e.kind = k /\ e.model = m}

RECURSIVE SumModelCounts(_, _)
\* The sum of counts[m][k] over the models ms.
SumModelCounts(ms, k) ==
    IF ms = {} THEN 0
    ELSE LET m == CHOOSE u \in ms : TRUE
         IN  ModelCount(m, k) + SumModelCounts(ms \ {m}, k)

\* C27: after any prefix of a session's deltas, for every model m and kind
\* k of unit, machine and application, counts[m][k] is the number of known
\* entities of kind k in model m and is not negative, and the controller's
\* counter of each kind is the sum of the per-model counts.
C27_ModelCountsMatchEntities ==
    \A k \in EntityKinds :
        /\ \A m \in ModelUUIDs :
              /\ ModelCount(m, k) = Cardinality(KnownEntities(m, k))
              /\ wstate.models[m].counts[k] >= 0
        /\ wstate.stats[StatsField(k)] = SumModelCounts(ModelUUIDs, k)

\* Units of two models were added and one of them removed again.
C27_Witness ==
    /\ nDeltas = 3
    /\ wstate.stats.UnitCount = 1
    /\ ModelCount("m1", "unit") = 0
    /\ ModelCount("m2", "unit") = 1
    /\ wstate.models["m1"].known
\* The watcher leaves the branch of its switch for ErrAPIConnection.
LeavesUnavailable == wpc = "unavailable" /\ wpc' # "unavailable"

\* The controller is marked unavailable since the start of the dial and the
\* retry timer is set.
MarkedAndSleeping ==
    /\ wpc' = "sleep"
    /\ mctl'.unavailableSince = dialStartTime
    /\ sleepUntil' = mclock + apiConnectRetryDuration

\* C28 as stated: a dial that failed with ErrAPIConnection marks the
\* controller unavailable since the start of that dial and the loop waits
\* for the retry time; the watcher ends there only when the controller is
\* removed or the monitor is being stopped.
C28_APIConnectionNeverEnds ==
    [][LeavesUnavailable =>
        \/ MarkedAndSleeping
        \/ (wpc' = "done" /\ (~mctl.exists \/ tomb.dying))]_vars

\* C28, amended: the watcher takes the ErrAPIConnection branch exactly for
\* a dial that failed with that cause; there it marks the controller
\* unavailable since the time the dial was started (noted at the top of the
\* loop and kept until the next dial) and sets the retry timer, or, when
\* the store update fails, returns that error (never ErrAPIConnection);
\* the wait ends with the next dial, no sooner than apiConnectRetry after
\* it began, or with ErrDying when the tomb is dying.
C28_APIConnectionRetries ==
    /\ [][(wpc = "dialAPI" /\ wpc' # "dialAPI" /\ ~(tomb.dying /\ wret' = ErrDying /\ dg' = dg))
            => ((wpc' = "unavailable") <=> (dgErr = ErrAPIConnection))]_vars
    /\ [][(wpc = "dial" /\ wpc' # "dial") => dialStartTime' = mclock]_vars
    /\ [][wpc # "dial" => dialStartTime' = dialStartTime]_vars
    /\ [][LeavesUnavailable =>
            \/ MarkedAndSleeping
            \/ /\ wpc' = "done"
               /\ wret' = ErrOther
               /\ mctl' = mctl
               /\ tomb'.dying]_vars
    /\ [][(wpc = "sleep" /\ wpc' # "sleep") =>
            \/ (wpc' = "dial" /\ mclock >= sleepUntil)
            \/ (wpc' = "done" /\ tomb.dying /\ wret' = ErrDying)]_vars
    /\ [](wret # ErrAPIConnection)

\* After a dial that failed with ErrAPIConnection the controller is marked
\* unavailable since the start of that dial, and the watcher is dialling
\* again, apiConnectRetry later or more.
C28_Witness ==
    /\ wpc = "dialAPI"
    /\ mctl.unavailableSince > ZeroTime
    /\ dialStartTime >= mctl.unavailableSince + apiConnectRetryDuration
    /\ \A id \in ConnIds : conns[id] = "unused"
\* watch returns an error that is not ErrDying.
WatchFailed == wpc \in {"watch", "select", "flush"} /\ wpc' = "sleep"

\* C29: when watch ends with an error other than ErrDying the watcher
\* releases the connection with Evict; an evicted connection stays evicted:
\* the watcher never holds it again and OpenAPI never returns it; after
\* the failure the loop's next step on the controller is a dial (unless it
\* is stopped), and the connection that dial returns is a new one.
C29_FailedConnectionEvicted ==
    /\ [][WatchFailed => (conn # 0 /\ conns'[conn] = "evicted" /\ conn' = 0)]_vars
    /\ [][\A id \in ConnIds : conns[id] = "evicted" => conns'[id] = "evicted"]_vars
    /\ [](\A id \in ConnIds :
            conns[id] = "evicted" => (conn # id /\ ~(dg = "reply" /\ dgConn = id)))
    /\ [][(wpc = "sleep" /\ wpc' # "sleep") => wpc' \in {"dial", "done"}]_vars
    /\ [][(dg = "open" /\ dg' = "reply" /\ dgErr' = Nil)
            => (conns[dgConn'] = "unused" /\ conns'[dgConn'] = "open")]_vars

\* The watcher watches over a second connection; the first, on which watch
\* failed, is evicted.
C29_Witness ==
    /\ wpc = "select"
    /\ conn = 2
    /\ conns[1] = "evicted"
    /\ conns[2] = "open"

\* The stored lease of c is the one that i's monitor knows as its own.
HoldsStoredLease(i, c) ==
    /\ ctls[c].exists
    /\ ctls[c].owner = i
    /\ ctls[c].expiry = mons[i][c].leaseExpiry

\* The lease loop of i's monitor of c returns in this step.
LeaseLoopReturns(i, c) == mons[i][c].pc = "wait" /\ mons'[i][c].pc = "done"

\* C30: when the lease loop of a monitor that is being shut down returns,
\* it returns from an acquire: a release (newOwner "") against its
\* (leaseExpiry, ownerId), or a renewal that failed; for a monitor that
\* holds the stored lease it is the release, which succeeds and leaves the
\* stored lease without owner, and the loop returns ErrDying; a monitor
\* that has returned makes no further acquire; and a lease without owner can
\* be acquired by any instance at once, whatever the time.
C30_ShutdownReleasesLease ==
    /\ [][\A i \in Instances, c \in Controllers :
            (LeaseLoopReturns(i, c) /\ mons[i][c].dying) =>
                /\ lastAcq'.flip # lastAcq.flip
                /\ lastAcq'.by = i /\ lastAcq'.c = c
                /\ lastAcq'.oldExpiry = mons[i][c].leaseExpiry
                /\ lastAcq'.oldOwner = i
                /\ \/ lastAcq'.newOwner = NoOwner
                   \/ (lastAcq'.newOwner = i /\ lastAcq'.err # Nil)
                /\ HoldsStoredLease(i, c) =>
                      /\ lastAcq'.newOwner = NoOwner
                      /\ lastAcq'.err = Nil
                      /\ ctls'[c].exists /\ ctls'[c].owner = NoOwner
                      /\ mons'[i][c].ret = ErrDying]_vars
    /\ [][\A i \in Instances, c \in Controllers :
            (mons[i][c].pc = "done" /\ lastAcq'.flip # lastAcq.flip) => lastAcq'.by # i]_vars
    /\ [](\A c \in Controllers, j \in Instances :
            (ctls[c].exists /\ ctls[c].owner = NoOwner) =>
                LET r == AcquireMonitorLease(ctls[c], ctls[c].expiry, ctls[c].owner,
                                             now + leaseExpiryDuration, j, now)
                IN  r.err = Nil /\ r.ctl.owner = j)

\* A monitor that was shut down released its lease, and another instance
\* acquired the lease before the released lease would have expired.
C30_Witness ==
    \E c \in Controllers, i, j \in Instances :
        /\ i # j
        /\ mons[i][c].pc = "done"
        /\ mons[i][c].ret = ErrDying
        /\ ctls[c].owner = j
        /\ mons[j][c].pc = "wait"
        /\ lastAcq.by = j
        /\ lastAcq.oldOwner = NoOwner
        /\ now < 1 + leaseExpiryDuration

\* The lease loop of i's monitor of c tries to renew its lease in this step.
RenewalAttempt(i, c) ==
    /\ mons[i][c].pc = "wait"
    /\ lastAcq'.flip # lastAcq.flip
    /\ lastAcq'.by = i /\ lastAcq'.c = c
    /\ lastAcq'.newOwner = i

DyingRow == Present(dyModels, TheModel) /\ dyModels[TheModel].life = "dying"

\* C32: a row left with life dying by a successful DestroyModel is deleted
\* in the end, and so is every dying row whose model the controller no
\* longer has.
C32_DyingModelReaped ==
    /\ DyingRow ~> ~Present(dyModels, TheModel)
    /\ (DyingRow /\ dyCtl = "gone") ~> ~Present(dyModels, TheModel)

\* C33: when the listing of the controllers fails with DatabaseLocked,
\* Watch does not return: it goes to its select with the watchers and the
\* context as they were, and polls again at the next tick; any other error
\* of the listing makes Watch return that error; from the select Watch
\* returns only when the context is done, with the context's error.
C33_DatabaseLockedRetried ==
    /\ [][(spc = "poll" /\ spc' # "poll") =>
            /\ lastPoll' \in {Nil, ErrDatabaseLocked} =>
                  /\ spc' = "select"
                  /\ sret' = sret
                  /\ slot' = slot
                  /\ runnerState' = runnerState
                  /\ ctxDone' = ctxDone
            /\ lastPoll' \notin {Nil, ErrDatabaseLocked} =>
                  /\ spc' = "return"
                  /\ sret' = lastPoll']_vars
    /\ [][(spc = "select" /\ spc' # "select") =>
            \/ spc' = "poll"
            \/ (ctxDone /\ spc' = "return" /\ sret' = ErrCtx)]_vars
    /\ [](spc \in {"return", "returned"} => sret \in {ErrDatabase, ErrCtx})

\* After a listing that failed with DatabaseLocked Watch polls again, and
\* a watcher started before is still in its session.
C33_Witness ==
    /\ lastPoll = ErrDatabaseLocked
    /\ spc = "poll"
    /\ ~ctxDone
    /\ \E g \in Gids : slot[g].pc = "session"

\* C34: the access level in a model summary is admin when the caller owns
\* the model or is in the admin ACL, whatever the other ACLs say; otherwise
\* write when the caller is in the write ACL; otherwise read.
C34_SummaryAccessPrecedence ==
    (lsLast.called /\ lsLast.res.listed /\ ~lsLast.res.error) =>
        LET id == lsLast.id
            m == lsLast.model
            isAdmin == id.user = m.owner \/ CheckACL(id, m.admin)
            isWrite == CheckACL(id, m.write)
        IN  /\ isAdmin => lsLast.res.access = "admin"
            /\ (~isAdmin /\ isWrite) => lsLast.res.access = "write"
            /\ (~isAdmin /\ ~isWrite) => lsLast.res.access = "read"

\* A caller who is in all three ACLs and does not own the model is
\* reported as admin.
C34_Witness ==
    /\ lsLast.called
    /\ lsLast.id.user = "alice"
    /\ "alice" \in lsLast.model.admin \cap lsLast.model.write \cap lsLast.model.read
    /\ lsLast.model.owner # "alice"
    /\ lsLast.res.access = "admin"

\* C35: on a connection whose model UUID resolves, a call of a facade
\* other than Admin fails with CallNotImplemented while the username is
\* unset, for every version and method; Admin below version 3 fails with
\* CodeNotSupported; a (root, version) that is not in the facade table fails
\* with CallNotImplemented; and the username becomes set only by a Login
\* that succeeds, so no method outside Admin is reached before one.
C35_NoFacadeBeforeLogin ==
    /\ [](wsKind # "unknown" =>
            \A root \in RootNames, v \in FacadeVersionNumbers, known \in BOOLEAN :
                LET r == FindMethod(wsKind, wsUsername, root, v, known)
                IN  /\ (wsUsername = "" /\ root # "Admin") => r = CallNotImplemented
                    /\ (root = "Admin" /\ v < 3) => r = CodeNotSupported
                    /\ (<<root, v>> \notin facades /\ ~(root = "Admin" /\ v < 3)) =>
                          r = CallNotImplemented)
    /\ [][(wsUsername = "" /\ wsUsername' # "") =>
            /\ wsLogin'.called
            /\ wsLogin'.res.err = Nil
            /\ wsLogin'.res.user = wsUsername']_vars

\* C38: a Login that returns an error on a connection without a username
\* leaves the username unset, and every call of a facade other than Admin
\* is still refused.
C38_FailedLoginStaysLoggedOut ==
    (wsLogin.called /\ wsLogin.userBefore = "" /\ wsLogin.res.err # Nil) =>
        /\ wsUsername = ""
        /\ \A root \in RootNames \ {"Admin"}, v \in FacadeVersionNumbers :
              FindMethod(wsKind, wsUsername, root, v, TRUE) # "method"

\* C36: every SetModelLife update of a flush carries a life that a Model
\* delta can have given the model (a life the delta reported, or dead for
\* a removed model): never the empty life of an entry that only unit,
\* machine or application deltas have made.
C36_ModelLifeFromModelDelta ==
    \A op \in flushed : op.op = "SetModelLife" => op.arg \in Lives

\* The watcher loop is outside a session: it has returned, or it is about
\* to dial, dialling, marking the controller unavailable or asleep.
OutsideSession == wpc \in {"done", "dial", "dialAPI", "unavailable", "sleep"}

\* C37: when the watcher loop returns or goes on to dial again, the
\* connection its last successful dialAPI returned has been released (on
\* every path, the failures of SetControllerAvailable and
\* ControllerUpdateCredentials included), and no connection is released
\* twice.
C37_ConnectionReleasedOnce ==
    /\ [](OutsideSession => (conn = 0 \/ conns[conn] # "open"))
    /\ [][\A id \in ConnIds :
            (conns[id] \in {"closed", "evicted"} /\ conns'[id] # conns[id]) =>
                conns'[id] = "open"]_vars

\* C39 (summary watcher): a summary of a batch whose model had a row when
\* the batch was received is published, whatever earlier batches of the
\* session found (stated for the summaries taken while the database
\* answers).
C39_UnknownModelNotRemembered ==
    (lastSum.set /\ lastSum.getok /\ lastSum.summary.uuid \in sumAtNext) =>
        /\ hub # <<>>
        /\ \A k \in 1 .. Len(hub) : hub[k].topic = lastSum.summary.uuid

\* The goroutines of watch that have not ended.
NxOutstanding == nxCalling \cup {[turn |-> g.turn, call |-> g.call] : g \in nxSending}

\* C40: at most one goroutine of watch's loop is outstanding at any time;
\* its send always finds room in replyc; the reply watch receives in a turn
\* is the one of that turn's goroutine; and after watch has returned on
\* shutdown the goroutine left in apiw.Next sends its reply and ends.
C40_OneNextOutstanding ==
    /\ [](Cardinality(NxOutstanding) <= 1)
    /\ [](\A g \in nxSending : ReplyRoom(nxReplyc[g.call]))
    /\ [](nxGot.set => nxGot.turn = nxGot.at)
    /\ (nxpc = "done") ~> (NxOutstanding = {})

\* watch returned ErrDying with a goroutine in apiw.Next, and that
\* goroutine has sent its reply and ended.
C40_Witness ==
    /\ nxpc = "done"
    /\ nxInFlight
    /\ NxOutstanding = {}
    /\ nxCall > 0 /\ nxReplyc[nxCall] # <<>>
====
